---- MODULE Spec2Model ----
(***************************************************************************)
(* Model of the fan controller: main (signal wait and shutdown handoff),   *)
(* the control-loop goroutine runControlLoop, SetAllFans with its retry    *)
(* burst, the PID controller and the temperature aggregation helpers.      *)
(*                                                                         *)
(* float64 quantities are fixed-point integers counted in 1/Scale units.   *)
(* Times are whole seconds counted from the clock reading of the latest    *)
(* PID update: a time.Time enters the program only through the difference  *)
(* now.Sub(p.PrevTime), so the origin is moved at every update.  The error  *)
(* counters, which the program only increments, are counted from that same *)
(* point.  SetAllFans, checkEmergencyConditions and the PIDController are   *)
(* also exercised by themselves, with arguments the program never passes.  *)
(***************************************************************************)
EXTENDS Integers, Sequences, FiniteSets, TLC

---------------------------------------------------------------------------
(* Program constants *)

\* float64 resolution: a float x is stored as the integer x * Scale
Scale == 4

\* const maxIPMIFailures = 5
maxIPMIFailures == 5

\* for attempt := 1; attempt <= 3; attempt++
MaxAttempts == 3

\* time.Sleep(2 * time.Second) between attempts
RetrySleep == 2

\* the duty forced in emergencies and on shutdown
FullDuty == 100

\* SetAllFans accepts 0..100
DutyLo == 0
DutyHi == 100

\* setDefaults values of the configuration fields the loop consumes
TargetHDD == 38
MaxHDD == 40
MaxCPU == 75
PollInterval == 30
WarmestDisks == 4
Kp == 5
Kd == 20

\* ki, counted in tenths (0.1): the one gain that is not a whole number
KiTenths == 1
IntegralMax == 50

---------------------------------------------------------------------------
(* Bounds of the model *)

\* the longest time (seconds) the model lets pass without a PID update
MaxTime == 70

\* the model stops counting consecutive failures here
MaxFailures == 7

\* direct calls try arguments this far beyond either side of a limit: duties
\* around 0..100, temperatures (degrees) around MaxCPU and MaxHDD
TestMargin == 3

\* the longest time (seconds) between two direct calls of Calculate
MaxDt == 2

\* direct calls of GetAverageOfWarmest pass n from -1 up to this
MaxN == 5

\* direct calls of the sensor functions use up to this many disks
MaxDisks == 3

\* the configuration files tried differ from a complete valid file in up to
\* this many fields
MaxEdits == 2

\* the controller's setters are called at most this many times in a run
MaxSetterCalls == 1

\* a function called by itself is called at most this many times in a run
MaxCalls == 3

\* `ipmitool sensor` reports of up to this many lines are tried
MaxLines == 2

\* exclude-pattern lists of up to this many patterns are tried
MaxPatterns == 3

\* fan sections of the configuration files tried: the defaults, a narrow band
\* with a startup duty below it, and two that Validate rejects
ConfigFiles ==
    { [MinDuty |-> 30, MaxDuty |-> 100, StartupDuty |-> 50],
      [MinDuty |-> 30, MaxDuty |-> 50, StartupDuty |-> 20],
      [MinDuty |-> 60, MaxDuty |-> 50, StartupDuty |-> 50],
      [MinDuty |-> 30, MaxDuty |-> 100, StartupDuty |-> 120] }

\* sensor readings the environment can produce
CPUTemps == {60, 80}
DiskTempMaps ==
    { [d \in {"sda", "sdb"} |-> 38],
      [d \in {"sda", "sdb"} |-> IF d = "sda" THEN 40 ELSE 39],
      [d \in {"sda", "sdb"} |-> IF d = "sda" THEN 45 ELSE 35] }

Procs == {"main", "loop"}

---------------------------------------------------------------------------
(* Pure helpers *)

\* integer division rounding toward zero, as float-to-int conversion does
TruncDiv(a, b) == IF a >= 0 THEN a \div b ELSE -((-a) \div b)

\* variant: the upper limit is not applied
clamp_LowerOnly(value, min, max) == IF value < min THEN min ELSE value

clamp(value, min, max) ==
    IF value < min THEN min
    ELSE IF value > max THEN max
    ELSE value

\* variant: min_duty is not compared with max_duty
ValidateFans_NoOrder(c) ==
    /\ ~(c.MinDuty < 0 \/ c.MinDuty > 100)
    /\ ~(c.MaxDuty < 0 \/ c.MaxDuty > 100)
    /\ ~(c.StartupDuty < 0 \/ c.StartupDuty > 100)

\* Config.Validate, fan section
ValidateFans(c) ==
    /\ ~(c.MinDuty < 0 \/ c.MinDuty > 100)
    /\ ~(c.MaxDuty < 0 \/ c.MaxDuty > 100)
    /\ ~(c.StartupDuty < 0 \/ c.StartupDuty > 100)
    /\ ~(c.MinDuty >= c.MaxDuty)

\* LoadConfig returns only configurations that pass Validate
FanConfigs == { c \in ConfigFiles : ValidateFans(c) }

RECURSIVE BubblePass(_, _, _)
RECURSIVE BubbleSort(_, _)
RECURSIVE SumFirst(_, _)
RECURSIVE SumFirst_All(_, _)
RECURSIVE MaxFrom(_, _, _)
RECURSIVE MinFrom(_, _, _)
RECURSIVE KeyOrderOf(_)

\* the orders in which a `range` over a map with these keys can visit them
IterationOrders(keys) ==
    { s \in [1..Cardinality(keys) -> keys] :
        \A i, j \in DOMAIN s : i # j => s[i] # s[j] }

\* one of these orders, for callers whose result does not depend on it
KeyOrderOf(keys) ==
    IF keys = {} THEN <<>>
    ELSE LET k == CHOOSE x \in keys : TRUE
         IN  <<k>> \o KeyOrderOf(keys \ {k})

KeyOrder(temps) == KeyOrderOf(DOMAIN temps)

\* tempSlice as the range in the given order appends it
MapValues(temps, order) == [i \in DOMAIN order |-> temps[order[i]]]

\* one inner pass of the bubble sort: j runs from 1 while j <= lim
BubblePass(s, j, lim) ==
    IF j > lim THEN s
    ELSE IF s[j] < s[j + 1]
         THEN BubblePass([s EXCEPT ![j] = s[j + 1], ![j + 1] = s[j]], j + 1, lim)
         ELSE BubblePass(s, j + 1, lim)

\* variant: the outer loop runs once
BubbleSort_OnePass(s, i) ==
    IF i >= Len(s) - 1 THEN s ELSE BubblePass(s, 1, Len(s) - i - 1)

\* outer loop of the bubble sort (descending)
BubbleSort(s, i) ==
    IF i >= Len(s) - 1 THEN s
    ELSE BubbleSort(BubblePass(s, 1, Len(s) - i - 1), i + 1)

\* variant: the sum runs over the whole slice
SumFirst_All(s, k) == IF Len(s) = 0 THEN 0 ELSE s[1] + SumFirst_All(Tail(s), k)

\* `for i := 0; i < take; i++ { sum += tempSlice[i] }`: no round for take <= 0
SumFirst(s, k) == IF k <= 0 THEN 0 ELSE s[k] + SumFirst(s, k - 1)

\* GetAverageOfWarmest with the map ranged in the given order.  The float64
\* result is kept as the exact quotient sum / take of its two operands: the
\* quotient 0 / 0 is NaN, and 0 / take for a negative take is -0.0
GetAverageOfWarmestIn(temps, order, n) ==
    IF DOMAIN temps = {} THEN [sum |-> 0, take |-> 1]
    ELSE LET tempSlice == BubbleSort(MapValues(temps, order), 0)
             take == IF Len(tempSlice) < n THEN Len(tempSlice) ELSE n
         IN  [sum |-> SumFirst(tempSlice, take), take |-> take]

\* the quotient is no number
IsNaN(q) == q.take = 0 /\ q.sum = 0

\* GetAverageOfWarmest as the control loop uses it: result in 1/Scale degrees
GetAverageOfWarmest(temps, n) ==
    LET q == GetAverageOfWarmestIn(temps, KeyOrder(temps), n)
    IN  TruncDiv(q.sum * Scale, q.take)

\* `for _, temp := range temps { if temp > max { max = temp } }`
MaxFrom(temps, order, max) ==
    IF order = <<>> THEN max
    ELSE LET temp == temps[Head(order)]
         IN  MaxFrom(temps, Tail(order), IF temp > max THEN temp ELSE max)

\* GetMaxTemperature with the map ranged in the given order
GetMaxTemperatureIn(temps, order) == MaxFrom(temps, order, 0)

GetMaxTemperature(temps) == GetMaxTemperatureIn(temps, KeyOrder(temps))

\* `for _, temp := range temps { if temp < min { min = temp } }`
MinFrom(temps, order, min) ==
    IF order = <<>> THEN min
    ELSE LET temp == temps[Head(order)]
         IN  MinFrom(temps, Tail(order), IF temp < min THEN temp ELSE min)

\* variant: the search starts from 0 as GetMaxTemperature's does
GetMinTemperatureIn_FromZero(temps, first, order) == MinFrom(temps, order, 0)

\* GetMinTemperature: min starts as the value of the first key a range yields,
\* then a second range in the given order
GetMinTemperatureIn(temps, first, order) ==
    IF DOMAIN temps = {} THEN 0
    ELSE MinFrom(temps, order, temps[first])

\* variant: a reading equal to its threshold is an emergency
checkEmergencyConditions_NotStrict(cpuTemp, maxDiskTemp) ==
    IF cpuTemp >= MaxCPU * Scale THEN "cpu_temp"
    ELSE IF maxDiskTemp >= MaxHDD THEN "hdd_temp"
    ELSE ""

\* checkEmergencyConditions: cpuTemp in 1/Scale degrees, maxDiskTemp in degrees
checkEmergencyConditions(cpuTemp, maxDiskTemp) ==
    IF cpuTemp > MaxCPU * Scale THEN "cpu_temp"
    ELSE IF maxDiskTemp > MaxHDD THEN "hdd_temp"
    ELSE ""

\* variant: the controller starts with a full integral
NewPIDController_Preset(kp, ki, kd, target, minOutput, maxOutput, integralMax) ==
    [Kp |-> kp, Ki |-> ki, Kd |-> kd, Target |-> target,
     MinOutput |-> minOutput, MaxOutput |-> maxOutput,
     IntegralMax |-> integralMax,
     Integral |-> integralMax, PrevError |-> 0, PrevTime |-> 0,
     FirstRun |-> TRUE]

\* NewPIDController: target, limits and integralMax in 1/Scale units; the
\* zero time.Time of PrevTime is 0
NewPIDController(kp, ki, kd, target, minOutput, maxOutput, integralMax) ==
    [Kp |-> kp, Ki |-> ki, Kd |-> kd, Target |-> target,
     MinOutput |-> minOutput, MaxOutput |-> maxOutput,
     IntegralMax |-> integralMax,
     Integral |-> 0, PrevError |-> 0, PrevTime |-> 0, FirstRun |-> TRUE]

\* the controller main builds from the configuration
MainPID(c) ==
    NewPIDController(Kp, KiTenths, Kd, TargetHDD * Scale, c.MinDuty * Scale,
                     c.MaxDuty * Scale, IntegralMax * Scale)

ZeroTerms == [P |-> 0, I |-> 0, D |-> 0, Error |-> 0]

\* variant: the accumulated integral is stored as it is
IntegralClamped_NoLimit(p, error, dt) == p.Integral + error * dt

\* Calculate, "Integral term with anti-windup"
IntegralClamped(p, error, dt) ==
    LET integral == p.Integral + error * dt
    IN  clamp(integral, -p.IntegralMax, p.IntegralMax)

\* variant: the first run is not skipped
Derivative_OnFirstRun(p, error, dt) ==
    IF dt > 0 THEN TruncDiv(p.Kd * (error - p.PrevError), dt) ELSE 0

\* Calculate, "Derivative term (skip on first run)"
Derivative(p, error, dt) ==
    IF ~p.FirstRun /\ dt > 0
    THEN TruncDiv(p.Kd * (error - p.PrevError), dt)
    ELSE 0

\* PIDController.Calculate at wall-clock time t
Calculate(p, current, t) ==
    LET error == current - p.Target
        dt == IF ~p.FirstRun THEN t - p.PrevTime ELSE 1
        proportional == p.Kp * error
        integralClamped == IntegralClamped(p, error, dt)
        derivative == Derivative(p, error, dt)
        out == clamp(proportional + integralClamped + derivative,
                     p.MinOutput, p.MaxOutput)
    IN  [pid |-> [p EXCEPT !.Integral = integralClamped, !.PrevError = error,
                           !.PrevTime = t, !.FirstRun = FALSE],
         output |-> out,
         terms |-> [P |-> proportional, I |-> integralClamped,
                    D |-> derivative, Error |-> error]]

\* variant: the accumulated integral survives
Reset_KeepsIntegral(p) ==
    [p EXCEPT !.PrevError = 0, !.PrevTime = 0, !.FirstRun = TRUE]

\* PIDController.Reset
Reset(p) ==
    [p EXCEPT !.Integral = 0, !.PrevError = 0, !.PrevTime = 0, !.FirstRun = TRUE]

\* variant: the controller is updated in an emergency as well
TickControl_CalculatesInEmergency(reason, p, avgTemp, t) ==
    LET r == Calculate(p, avgTemp, t)
    IN  [pid |-> r.pid, output |-> r.output, called |-> TRUE,
         terms |-> IF reason # "" THEN ZeroTerms ELSE r.terms]

\* runControlLoop, the branch on emergencyReason: an emergency passes zero
\* PIDTerms and leaves the controller alone, otherwise pid.Calculate(avgTemp)
TickControl(reason, p, avgTemp, t) ==
    IF reason # ""
    THEN [pid |-> p, output |-> 0, called |-> FALSE, terms |-> ZeroTerms]
    ELSE LET r == Calculate(p, avgTemp, t)
         IN  [pid |-> r.pid, output |-> r.output, called |-> TRUE,
              terms |-> r.terms]

\* variant: the conversion to int rounds up
NormalDuty_RoundsUp(output, c) ==
    LET d0 == TruncDiv(output + Scale - 1, Scale)
        d1 == IF d0 < c.MinDuty THEN c.MinDuty ELSE d0
    IN  IF d1 > c.MaxDuty THEN c.MaxDuty ELSE d1

\* the normal branch: int(output), then the clamp to the fan limits
NormalDuty(output, c) ==
    LET d0 == TruncDiv(output, Scale)
        d1 == IF d0 < c.MinDuty THEN c.MinDuty ELSE d0
    IN  IF d1 > c.MaxDuty THEN c.MaxDuty ELSE d1

\* variant: the emergency duty goes through the clamp to the fan limits too
SelectDuty_ClampsEmergency(reason, output, c) ==
    IF reason # "" THEN NormalDuty(FullDuty * Scale, c) ELSE NormalDuty(output, c)

\* the duty selection of a tick: 100 in an emergency, else the PID's duty
SelectDuty(reason, output, c) ==
    IF reason # "" THEN FullDuty ELSE NormalDuty(output, c)

\* variant: only negative duties are rejected
ValidDuty_NoUpperBound(dutyPercent) == ~(dutyPercent < DutyLo)

\* SetAllFans' argument check
ValidDuty(dutyPercent) == ~(dutyPercent < DutyLo \/ dutyPercent > DutyHi)

---------------------------------------------------------------------------
(* State *)

VARIABLES
    dryRun,                   \* the --dry-run flag
    config,                   \* the validated fan configuration
    pcMain,                   \* position of main
    pcLoop,                   \* position of the runControlLoop goroutine
    sigChan,                  \* signals buffered in sigChan (capacity 1)
    call,                     \* per goroutine: its SetAllFans invocation
    lastCmd,                  \* duty byte of the latest raw command run by ipmitool
    now,                      \* wall clock, seconds since the latest PID update
    pid,                      \* the PIDController
    consecutiveIPMIFailures,  \* runControlLoop's failure counter
    diskTemps,                \* this tick's disk temperatures
    cpuTemp,                  \* this tick's CPU temperature (1/Scale degrees)
    fanDuty,                  \* this tick's fanDuty
    emergencyReason,          \* this tick's emergencyReason
    pidTerms,                 \* this tick's pidTerms
    pidOutput,                \* this tick's `output` of pid.Calculate (1/Scale percent)
    fanSpeeds,                \* this tick's fanSpeeds
    unitCall,                 \* arguments and results of a function called by itself
    cachedK10TempPath,        \* the package variable cachedK10TempPath
    metrics,                  \* the published gauges
    selected,                 \* record of the tick: duty and reason as selected
    tickCalls,                \* record of the tick: duties passed to SetAllFans
    primaryErr                \* record of the tick: the primary SetAllFans failed

vars == <<dryRun, config, pcMain, pcLoop, sigChan, call, lastCmd, now, pid,
          consecutiveIPMIFailures, diskTemps, cpuTemp, fanDuty, emergencyReason,
          pidTerms, pidOutput, fanSpeeds, unitCall, cachedK10TempPath, metrics, selected,
          tickCalls, primaryErr>>

Reasons == {"cpu_temp", "hdd_temp", "ipmi_failure"}

\* a gauge label that has never been set
Absent == -1

\* no raw command has run yet
NoCmd == -1

HexDigits ==
    <<"0", "1", "2", "3", "4", "5", "6", "7", "8", "9", "a", "b", "c", "d",
      "e", "f">>

\* formatting with the verb %x: the digits of n in base 16, lowercase
RECURSIVE HexString(_)
HexString(n) ==
    IF n < 16 THEN HexDigits[n + 1]
    ELSE HexString(n \div 16) \o HexDigits[(n % 16) + 1]

\* the flag 0 with a width: zeros in front up to the width
RECURSIVE PadZero(_, _)
PadZero(str, width) ==
    IF Len(str) < width THEN PadZero("0" \o str, width) ELSE str

\* variant: the verb has no width
DutyHex_NoWidth(dutyPercent) == "0x" \o HexString(dutyPercent)

\* fmt.Sprintf("0x%02x", dutyPercent)
DutyHex(dutyPercent) == "0x" \o PadZero(HexString(dutyPercent), 2)

numFans == 6
numPadding == 10

\* n copies of an argument
Copies(arg, n) == [i \in 1..n |-> arg]

\* SetAllFans, the argument vector of ipmitool
BuildArgs(dutyPercent) ==
    <<"raw", "0x3a", "0xd6">> \o Copies(DutyHex(dutyPercent), numFans)
        \o Copies("0x64", numPadding)

\* a SetAllFans invocation: where it stands, its argument, its args once
\* built, the loop variable `attempt`, its return value, and a record of the
\* ipmitool runs that failed and of the sleeps taken so far in this invocation
Idle == [st |-> "idle", duty |-> 0, args |-> <<>>, attempt |-> 0,
         ret |-> "none", fails |-> 0, sleeps |-> 0]

\* entry of SetAllFans: the range check, the args, then the first attempt
Invoke(dutyPercent) ==
    IF ValidDuty(dutyPercent)
    THEN [st |-> "exec", duty |-> dutyPercent, args |-> BuildArgs(dutyPercent),
          attempt |-> 1, ret |-> "none", fails |-> 0, sleeps |-> 0]
    ELSE [st |-> "done", duty |-> dutyPercent, args |-> <<>>, attempt |-> 0,
          ret |-> "invalid", fails |-> 0, sleeps |-> 0]

\* variant: gives up after the second failed attempt
AfterFailure_TwoAttempts(f) ==
    IF f.attempt < MaxAttempts - 1
    THEN [f EXCEPT !.st = "sleep", !.fails = f.fails + 1]
    ELSE [f EXCEPT !.st = "done", !.ret = "failed", !.fails = f.fails + 1]

\* SetAllFans after attempt number `attempt` failed: retry or give up
AfterFailure(f) ==
    IF f.attempt < MaxAttempts
    THEN [f EXCEPT !.st = "sleep", !.fails = f.fails + 1]
    ELSE [f EXCEPT !.st = "done", !.ret = "failed", !.fails = f.fails + 1]

\* variant: counts ipmitool attempts instead of SetAllFans calls
FailuresAfter_PerAttempt(n, failed) == IF failed THEN n + MaxAttempts ELSE 0

\* variant: a success does not reset the counter
FailuresAfter_Latched(n, failed) == IF failed THEN n + 1 ELSE n

\* the counter after the primary SetAllFans returned
FailuresAfter(n, failed) == IF failed THEN n + 1 ELSE 0

\* variant: escalates one failure late
TooManyFailures_OffByOne(n) == n > maxIPMIFailures

\* variant: never escalates
TooManyFailures_Never(n) == FALSE

\* the escalation test
TooManyFailures(n) == n >= maxIPMIFailures

\* UpdateAllMetrics, the emergency-mode gauges
UpdateEmergencyMode(g, reason) ==
    IF reason # ""
    THEN [[g EXCEPT ![reason] = 1] EXCEPT !["hdd_temp"] = 0, !["cpu_temp"] = 0]
    ELSE [g EXCEPT !["hdd_temp"] = 0, !["cpu_temp"] = 0]

ErrorTypes == {"temperature", "ipmi"}

\* make(map[string]int): no fan speed
EmptySpeeds == [f \in {} |-> 0]

\* no function has been called by itself
NoCall == [fn |-> "none"]

\* what GetFanSpeeds reports when it succeeds
FanSpeedReports == { [f \in {"FAN1"} |-> 1200] }

\* InitMetrics: the collectors before any observation (a gauge starts at 0, a
\* labelled gauge has no value before its first Set)
InitMetrics ==
    [FanDutyPercent |-> 0,
     PIDTerms |-> ZeroTerms,
     EmergencyMode |-> [r \in Reasons |-> Absent],
     ErrorsTotal |-> [e \in ErrorTypes |-> 0]]

\* variant: every error type is counted
RecordError_AllTypes(m, errorType) ==
    [m EXCEPT !.ErrorsTotal = [e \in ErrorTypes |-> m.ErrorsTotal[e] + 1]]

\* RecordError
RecordError(m, errorType) ==
    [m EXCEPT !.ErrorsTotal[errorType] = m.ErrorsTotal[errorType] + 1]

\* the error counters are counted from the latest PID update, as the clock is
RebaseErrors(m) == [m EXCEPT !.ErrorsTotal = [e \in ErrorTypes |-> 0]]

Init ==
    /\ dryRun \in BOOLEAN
    /\ config \in FanConfigs
    /\ pcMain = "wait_sig"
    /\ pcLoop = "prime"
    /\ sigChan = 0
    /\ call = [p \in Procs |-> Idle]
    /\ lastCmd = NoCmd
    /\ now = 0
    /\ pid = MainPID(config)
    /\ consecutiveIPMIFailures = 0
    /\ diskTemps = [d \in {} |-> 0]
    /\ cpuTemp = 0
    /\ fanDuty = 0
    /\ emergencyReason = ""
    /\ pidTerms = ZeroTerms
    /\ pidOutput = 0
    /\ fanSpeeds = EmptySpeeds
    /\ unitCall = NoCall
    /\ cachedK10TempPath = ""
    /\ metrics = InitMetrics
    /\ selected = [duty |-> 0, reason |-> ""]
    /\ tickCalls = <<>>
    /\ primaryErr = FALSE

---------------------------------------------------------------------------
(* SetAllFans, one step per ipmitool run and per retry sleep *)

\* exec.Command("ipmitool", args...) and cmd.CombinedOutput() of the current
\* attempt; the command sets the fans to the duty the args were built from
SetAllFansExec(p) ==
    /\ call[p].st = "exec"
    /\ lastCmd' = call[p].duty
    /\ \E ok \in BOOLEAN :
         call' = [call EXCEPT ![p] =
                    IF ok THEN [call[p] EXCEPT !.st = "done", !.ret = "nil"]
                    ELSE AfterFailure(call[p])]
    /\ UNCHANGED <<dryRun, config, pcMain, pcLoop, sigChan, now, pid,
                   consecutiveIPMIFailures, diskTemps, cpuTemp, fanDuty,
                   emergencyReason, pidTerms, pidOutput, fanSpeeds, unitCall, cachedK10TempPath,
                   metrics, selected, tickCalls, primaryErr>>

\* the 2 s sleep before the next attempt
SetAllFansSleep(p) ==
    /\ call[p].st = "sleep"
    /\ now + RetrySleep <= MaxTime
    /\ now' = now + RetrySleep
    /\ call' = [call EXCEPT ![p] = [call[p] EXCEPT !.st = "exec",
                                                    !.attempt = call[p].attempt + 1,
                                                    !.sleeps = call[p].sleeps + 1]]
    /\ UNCHANGED <<dryRun, config, pcMain, pcLoop, sigChan, lastCmd, pid,
                   consecutiveIPMIFailures, diskTemps, cpuTemp, fanDuty,
                   emergencyReason, pidTerms, pidOutput, fanSpeeds, unitCall, cachedK10TempPath,
                   metrics, selected, tickCalls, primaryErr>>

---------------------------------------------------------------------------
(* main *)

\* SIGINT or SIGTERM is delivered to sigChan (dropped when the buffer is full);
\* nothing reads sigChan after main's single receive, so later signals are
\* left out
Signal ==
    /\ pcMain = "wait_sig"
    /\ sigChan = 0
    /\ sigChan' = 1
    /\ UNCHANGED <<dryRun, config, pcMain, pcLoop, call, lastCmd, now, pid,
                   consecutiveIPMIFailures, diskTemps, cpuTemp, fanDuty,
                   emergencyReason, pidTerms, pidOutput, fanSpeeds, unitCall, cachedK10TempPath,
                   metrics, selected, tickCalls, primaryErr>>

\* <-sigChan, then the shutdown command unless in dry-run
MainReceiveSignal ==
    /\ pcMain = "wait_sig"
    /\ sigChan = 1
    /\ sigChan' = 0
    /\ IF ~dryRun
       THEN /\ call' = [call EXCEPT !["main"] = Invoke(FullDuty)]
            /\ pcMain' = "shutdown_set"
       ELSE /\ call' = call
            /\ pcMain' = "wait_done"
    /\ UNCHANGED <<dryRun, config, pcLoop, lastCmd, now, pid,
                   consecutiveIPMIFailures, diskTemps, cpuTemp, fanDuty,
                   emergencyReason, pidTerms, pidOutput, fanSpeeds, unitCall, cachedK10TempPath,
                   metrics, selected, tickCalls, primaryErr>>

\* SetAllFans(100) returned (either way); main blocks on <-controlLoopDone,
\* which nothing ever sends: runControlLoop has no return
MainShutdownReturn ==
    /\ pcMain = "shutdown_set"
    /\ call["main"].st = "done"
    /\ call' = [call EXCEPT !["main"] = Idle]
    /\ pcMain' = "wait_done"
    /\ UNCHANGED <<dryRun, config, pcLoop, sigChan, lastCmd, now, pid,
                   consecutiveIPMIFailures, diskTemps, cpuTemp, fanDuty,
                   emergencyReason, pidTerms, pidOutput, fanSpeeds, unitCall, cachedK10TempPath,
                   metrics, selected, tickCalls, primaryErr>>

---------------------------------------------------------------------------
(* runControlLoop *)

EmptyTemps == [d \in {} |-> 0]

\* variant: the priming command is sent in dry-run too
LoopPrime_IgnoresDryRun ==
    /\ pcLoop = "prime"
    /\ call' = [call EXCEPT !["loop"] = Invoke(config.StartupDuty)]
    /\ pcLoop' = "prime_set"
    /\ UNCHANGED <<dryRun, config, pcMain, sigChan, lastCmd, now, pid,
                   consecutiveIPMIFailures, diskTemps, cpuTemp, fanDuty,
                   emergencyReason, pidTerms, pidOutput, fanSpeeds, unitCall, cachedK10TempPath,
                   metrics, selected, tickCalls, primaryErr>>

\* "Set initial fan speed"
LoopPrime ==
    /\ pcLoop = "prime"
    /\ IF ~dryRun
       THEN /\ call' = [call EXCEPT !["loop"] = Invoke(config.StartupDuty)]
            /\ pcLoop' = "prime_set"
       ELSE /\ call' = call
            /\ pcLoop' = "read"
    /\ UNCHANGED <<dryRun, config, pcMain, sigChan, lastCmd, now, pid,
                   consecutiveIPMIFailures, diskTemps, cpuTemp, fanDuty,
                   emergencyReason, pidTerms, pidOutput, fanSpeeds, unitCall, cachedK10TempPath,
                   metrics, selected, tickCalls, primaryErr>>

\* variant: a failed priming command counts as a failed tick command does
LoopPrimeReturn_CountsFailure ==
    /\ pcLoop = "prime_set"
    /\ call["loop"].st = "done"
    /\ call' = [call EXCEPT !["loop"] = Idle]
    /\ pcLoop' = "read"
    /\ consecutiveIPMIFailures' =
         FailuresAfter(consecutiveIPMIFailures, call["loop"].ret # "nil")
    /\ UNCHANGED <<dryRun, config, pcMain, sigChan, lastCmd, now, pid,
                   diskTemps, cpuTemp, fanDuty, emergencyReason, pidTerms,
                   pidOutput, fanSpeeds, unitCall, cachedK10TempPath, metrics, selected,
                   tickCalls, primaryErr>>

\* the priming SetAllFans returned: a failure is logged, nothing else
LoopPrimeReturn ==
    /\ pcLoop = "prime_set"
    /\ call["loop"].st = "done"
    /\ call' = [call EXCEPT !["loop"] = Idle]
    /\ pcLoop' = "read"
    /\ UNCHANGED <<dryRun, config, pcMain, sigChan, lastCmd, now, pid,
                   consecutiveIPMIFailures, diskTemps, cpuTemp, fanDuty,
                   emergencyReason, pidTerms, pidOutput, fanSpeeds, unitCall, cachedK10TempPath,
                   metrics, selected, tickCalls, primaryErr>>

\* readAllTemperatures fails: log, RecordError, go to sleep
LoopReadError ==
    /\ pcLoop = "read"
    /\ pcLoop' = "sleep_err"
    /\ diskTemps' = EmptyTemps
    /\ cpuTemp' = 0
    /\ fanDuty' = 0
    /\ emergencyReason' = ""
    /\ pidTerms' = ZeroTerms
    /\ pidOutput' = 0
    /\ fanSpeeds' = EmptySpeeds
    /\ selected' = [duty |-> 0, reason |-> ""]
    /\ tickCalls' = <<>>
    /\ primaryErr' = FALSE
    /\ metrics' = RecordError(metrics, "temperature")
    /\ UNCHANGED <<dryRun, config, pcMain, sigChan, call, lastCmd, now, pid,
                   consecutiveIPMIFailures, unitCall, cachedK10TempPath>>

\* readAllTemperatures succeeds: aggregate, emergency check, duty selection,
\* and the call of SetAllFans(fanDuty) unless in dry-run
LoopTick ==
    /\ pcLoop = "read"
    /\ \E temps \in DiskTempMaps, cpu \in CPUTemps :
         LET avgTemp == GetAverageOfWarmest(temps, WarmestDisks)
             maxTemp == GetMaxTemperature(temps)
             reason  == checkEmergencyConditions(cpu * Scale, maxTemp)
             r       == TickControl(reason, pid, avgTemp, now)
             duty    == SelectDuty(reason, r.output, config)
         IN  /\ diskTemps' = temps
             /\ cpuTemp' = cpu * Scale
             /\ emergencyReason' = reason
             /\ fanDuty' = duty
             /\ pidTerms' = r.terms
             /\ pidOutput' = r.output
             /\ fanSpeeds' = EmptySpeeds
             /\ pid' = IF r.called THEN [r.pid EXCEPT !.PrevTime = 0] ELSE r.pid
             /\ now' = IF r.called THEN 0 ELSE now
             /\ selected' = [duty |-> duty, reason |-> reason]
             /\ primaryErr' = FALSE
             /\ IF ~dryRun
                THEN /\ call' = [call EXCEPT !["loop"] = Invoke(duty)]
                     /\ tickCalls' = <<duty>>
                     /\ pcLoop' = "actuate"
                ELSE /\ call' = call
                     /\ tickCalls' = <<>>
                     /\ pcLoop' = "observe"
             /\ metrics' = IF r.called THEN RebaseErrors(metrics) ELSE metrics
    /\ UNCHANGED <<dryRun, config, pcMain, sigChan, lastCmd,
                   consecutiveIPMIFailures, unitCall, cachedK10TempPath>>

\* SetAllFans(fanDuty) returned: failure accounting and escalation
LoopActuateReturn ==
    /\ pcLoop = "actuate"
    /\ call["loop"].st = "done"
    /\ LET failed == call["loop"].ret # "nil"
           n == FailuresAfter(consecutiveIPMIFailures, failed)
       IN  /\ n <= MaxFailures
           /\ consecutiveIPMIFailures' = n
           /\ primaryErr' = failed
           /\ metrics' = IF failed THEN RecordError(metrics, "ipmi") ELSE metrics
           /\ IF failed /\ TooManyFailures(n)
              THEN /\ emergencyReason' = "ipmi_failure"
                   /\ fanDuty' = FullDuty
                   /\ call' = [call EXCEPT !["loop"] = Invoke(FullDuty)]
                   /\ tickCalls' = Append(tickCalls, FullDuty)
                   /\ pcLoop' = "escalate"
              ELSE /\ call' = [call EXCEPT !["loop"] = Idle]
                   /\ pcLoop' = "observe"
                   /\ UNCHANGED <<emergencyReason, fanDuty, tickCalls>>
    /\ UNCHANGED <<dryRun, config, pcMain, sigChan, lastCmd, now, pid,
                   diskTemps, cpuTemp, pidTerms, pidOutput, fanSpeeds,
                   unitCall, cachedK10TempPath, selected>>

\* variant: after an escalation the tick publishes without the readback
LoopEscalateReturn_SkipsReadback ==
    /\ pcLoop = "escalate"
    /\ call["loop"].st = "done"
    /\ call' = [call EXCEPT !["loop"] = Idle]
    /\ pcLoop' = "publish"
    /\ UNCHANGED <<dryRun, config, pcMain, sigChan, lastCmd, now, pid,
                   consecutiveIPMIFailures, diskTemps, cpuTemp, fanDuty,
                   emergencyReason, pidTerms, pidOutput, fanSpeeds, unitCall, cachedK10TempPath,
                   metrics, selected, tickCalls, primaryErr>>

\* the escalation's SetAllFans(100) returned: a failure is logged only
LoopEscalateReturn ==
    /\ pcLoop = "escalate"
    /\ call["loop"].st = "done"
    /\ call' = [call EXCEPT !["loop"] = Idle]
    /\ pcLoop' = "observe"
    /\ UNCHANGED <<dryRun, config, pcMain, sigChan, lastCmd, now, pid,
                   consecutiveIPMIFailures, diskTemps, cpuTemp, fanDuty,
                   emergencyReason, pidTerms, pidOutput, fanSpeeds, unitCall, cachedK10TempPath,
                   metrics, selected, tickCalls, primaryErr>>

\* variant: a failed readback ends the tick like a failed temperature read
LoopReadback_AbortsTick ==
    /\ pcLoop = "observe"
    /\ \E ok \in BOOLEAN :
         IF ok THEN fanSpeeds' \in FanSpeedReports /\ pcLoop' = "publish"
               ELSE fanSpeeds' = EmptySpeeds /\ pcLoop' = "sleep_err"
    /\ UNCHANGED <<dryRun, config, pcMain, sigChan, call, lastCmd, now, pid,
                   consecutiveIPMIFailures, diskTemps, cpuTemp, fanDuty,
                   emergencyReason, pidTerms, pidOutput, unitCall, cachedK10TempPath, metrics,
                   selected, tickCalls, primaryErr>>

\* GetFanSpeeds: on an error the tick goes on with an empty map
LoopReadback ==
    /\ pcLoop = "observe"
    /\ \E ok \in BOOLEAN :
         IF ok THEN fanSpeeds' \in FanSpeedReports
               ELSE fanSpeeds' = EmptySpeeds
    /\ pcLoop' = "publish"
    /\ UNCHANGED <<dryRun, config, pcMain, sigChan, call, lastCmd, now, pid,
                   consecutiveIPMIFailures, diskTemps, cpuTemp, fanDuty,
                   emergencyReason, pidTerms, pidOutput, unitCall, cachedK10TempPath, metrics,
                   selected, tickCalls, primaryErr>>

\* UpdateAllMetrics, then the status log line.  Of the gauges it writes the
\* model keeps the duty, the PID terms and the emergency modes; the per-disk,
\* per-fan and temperature gauges are copies of the tick's diskTemps, fanSpeeds
\* and cpuTemp that nothing reads back
LoopPublish ==
    /\ pcLoop = "publish"
    /\ metrics' = [metrics EXCEPT
                     !.FanDutyPercent = fanDuty,
                     !.PIDTerms = pidTerms,
                     !.EmergencyMode = UpdateEmergencyMode(metrics.EmergencyMode,
                                                           emergencyReason)]
    /\ pcLoop' = "sleep"
    /\ UNCHANGED <<dryRun, config, pcMain, sigChan, call, lastCmd, now, pid,
                   consecutiveIPMIFailures, diskTemps, cpuTemp, fanDuty,
                   emergencyReason, pidTerms, pidOutput, fanSpeeds, unitCall, cachedK10TempPath,
                   selected, tickCalls, primaryErr>>

\* time.Sleep(PollInterval) at the end of a tick, then the next iteration
LoopSleep ==
    /\ pcLoop = "sleep"
    /\ now + PollInterval <= MaxTime
    /\ now' = now + PollInterval
    /\ pcLoop' = "read"
    /\ UNCHANGED <<dryRun, config, pcMain, sigChan, call, lastCmd, pid,
                   consecutiveIPMIFailures, diskTemps, cpuTemp, fanDuty,
                   emergencyReason, pidTerms, pidOutput, fanSpeeds, unitCall, cachedK10TempPath,
                   metrics, selected, tickCalls, primaryErr>>

\* time.Sleep(PollInterval) after a failed read, then `continue`
LoopSleepAfterError ==
    /\ pcLoop = "sleep_err"
    /\ now + PollInterval <= MaxTime
    /\ now' = now + PollInterval
    /\ pcLoop' = "read"
    /\ UNCHANGED <<dryRun, config, pcMain, sigChan, call, lastCmd, pid,
                   consecutiveIPMIFailures, diskTemps, cpuTemp, fanDuty,
                   emergencyReason, pidTerms, pidOutput, fanSpeeds, unitCall, cachedK10TempPath,
                   metrics, selected, tickCalls, primaryErr>>

---------------------------------------------------------------------------
(* Specification *)

Next ==
    \/ Signal
    \/ MainReceiveSignal
    \/ MainShutdownReturn
    \/ SetAllFansExec("main")
    \/ SetAllFansSleep("main")
    \/ SetAllFansExec("loop")
    \/ SetAllFansSleep("loop")
    \/ LoopPrime
    \/ LoopPrimeReturn
    \/ LoopReadError
    \/ LoopTick
    \/ LoopActuateReturn
    \/ LoopEscalateReturn
    \/ LoopReadback
    \/ LoopPublish
    \/ LoopSleep
    \/ LoopSleepAfterError

Spec == Init /\ [][Next]_vars

---------------------------------------------------------------------------
(* SetAllFans called directly, with any duty *)

TestDuties == (DutyLo - TestMargin)..(DutyHi + TestMargin)

InitTest ==
    /\ dryRun = FALSE
    /\ config \in FanConfigs
    /\ pcMain = "test"
    /\ pcLoop = "off"
    /\ sigChan = 0
    /\ call = [p \in Procs |-> Idle]
    /\ lastCmd = NoCmd
    /\ now = 0
    /\ pid = MainPID(config)
    /\ consecutiveIPMIFailures = 0
    /\ diskTemps = EmptyTemps
    /\ cpuTemp = 0
    /\ fanDuty = 0
    /\ emergencyReason = ""
    /\ pidTerms = ZeroTerms
    /\ pidOutput = 0
    /\ fanSpeeds = EmptySpeeds
    /\ unitCall = NoCall
    /\ cachedK10TempPath = ""
    /\ metrics = InitMetrics
    /\ selected = [duty |-> 0, reason |-> ""]
    /\ tickCalls = <<>>
    /\ primaryErr = FALSE

\* SetAllFans(d) is entered; the clock and the command record start afresh
TestCall ==
    /\ pcMain = "test"
    /\ call["main"].st = "idle"
    /\ \E d \in TestDuties : call' = [call EXCEPT !["main"] = Invoke(d)]
    /\ now' = 0
    /\ lastCmd' = NoCmd
    /\ UNCHANGED <<dryRun, config, pcMain, pcLoop, sigChan, pid,
                   consecutiveIPMIFailures, diskTemps, cpuTemp, fanDuty,
                   emergencyReason, pidTerms, pidOutput, fanSpeeds, unitCall, cachedK10TempPath,
                   metrics, selected, tickCalls, primaryErr>>

\* SetAllFans returned to the caller
TestReturn ==
    /\ pcMain = "test"
    /\ call["main"].st = "done"
    /\ call' = [call EXCEPT !["main"] = Idle]
    /\ UNCHANGED <<dryRun, config, pcMain, pcLoop, sigChan, lastCmd, now, pid,
                   consecutiveIPMIFailures, diskTemps, cpuTemp, fanDuty,
                   emergencyReason, pidTerms, pidOutput, fanSpeeds, unitCall, cachedK10TempPath,
                   metrics, selected, tickCalls, primaryErr>>

NextTest ==
    \/ TestCall
    \/ TestReturn
    \/ SetAllFansExec("main")
    \/ SetAllFansSleep("main")

SpecSetAllFans == InitTest /\ [][NextTest]_vars

\* the program's runs together with the direct calls
NextAll ==
    \/ Next
    \/ TestCall
    \/ TestReturn

SpecAll == (Init \/ InitTest) /\ [][NextAll]_vars

---------------------------------------------------------------------------
(* Functions and the controller exercised by themselves *)

\* the fan section setDefaults produces
DefaultFans == [MinDuty |-> 30, MaxDuty |-> 100, StartupDuty |-> 50]

\* neither goroutine runs; the caller stands at `pc` and holds controller p
InitUnit(pc, p) ==
    /\ dryRun = FALSE
    /\ config = DefaultFans
    /\ pcMain = pc
    /\ pcLoop = "off"
    /\ sigChan = 0
    /\ call = [q \in Procs |-> Idle]
    /\ lastCmd = NoCmd
    /\ now = 0
    /\ pid = p
    /\ consecutiveIPMIFailures = 0
    /\ diskTemps = EmptyTemps
    /\ cpuTemp = 0
    /\ fanDuty = 0
    /\ emergencyReason = ""
    /\ pidTerms = ZeroTerms
    /\ pidOutput = 0
    /\ fanSpeeds = EmptySpeeds
    /\ unitCall = NoCall
    /\ cachedK10TempPath = ""
    /\ metrics = InitMetrics
    /\ selected = [duty |-> 0, reason |-> ""]
    /\ tickCalls = <<>>
    /\ primaryErr = FALSE

\* arguments of checkEmergencyConditions around the two thresholds
TestCPUTemps == ((MaxCPU - TestMargin) * Scale)..((MaxCPU + TestMargin) * Scale)
TestMaxDiskTemps == (MaxHDD - TestMargin)..(MaxHDD + TestMargin)

InitEmergency == InitUnit("emergency_new", MainPID(DefaultFans))

\* checkEmergencyConditions(cpu, maxDisk, config); the arguments are kept in
\* cpuTemp and as the one entry of diskTemps, the result in emergencyReason
CheckEmergencyCall ==
    /\ pcMain \in {"emergency_new", "emergency_checked"}
    /\ pcMain' = "emergency_checked"
    /\ \E cpu \in TestCPUTemps, maxDisk \in TestMaxDiskTemps :
         /\ cpuTemp' = cpu
         /\ diskTemps' = [d \in {"max"} |-> maxDisk]
         /\ emergencyReason' = checkEmergencyConditions(cpu, maxDisk)
    /\ UNCHANGED <<dryRun, config, pcLoop, sigChan, call, lastCmd, now, pid,
                   consecutiveIPMIFailures, fanDuty, pidTerms, pidOutput,
                   fanSpeeds, unitCall, cachedK10TempPath, metrics, selected, tickCalls,
                   primaryErr>>

NextEmergency == CheckEmergencyCall

SpecEmergency == InitEmergency /\ [][NextEmergency]_vars

\* controllers as the package's tests build them: gains <<kp, kd>>, output
\* limits, integralMax; target 38
TestGains == { <<2, 0>>, <<5, 2>>, <<0, 10>> }
TestLimits == { <<0, 100>>, <<30, 100>>, <<-100, 100>> }
TestIntegralMax == { 1, 10 }
TestControllers ==
    { NewPIDController(g[1], 0, g[2], TargetHDD * Scale, l[1] * Scale,
                       l[2] * Scale, m * Scale) :
        g \in TestGains, l \in TestLimits, m \in TestIntegralMax }

\* temperatures passed to Calculate (1/Scale degrees): 30, 37.75, 38, 38.25,
\* 40, 41.25 and 50
TestCurrents == { 120, 151, 152, 153, 160, 165, 200 }

InitPID == \E p \in TestControllers : InitUnit("pid_new", p)

\* the clock advances between two calls
PIDTimePasses ==
    /\ pcMain \in {"pid_new", "pid_first", "pid_later", "pid_reset", "pid_set"}
    /\ now < MaxDt
    /\ now' = now + 1
    /\ UNCHANGED <<dryRun, config, pcMain, pcLoop, sigChan, call, lastCmd,
                   pid, consecutiveIPMIFailures, diskTemps, cpuTemp, fanDuty,
                   emergencyReason, pidTerms, pidOutput, fanSpeeds, unitCall, cachedK10TempPath,
                   metrics, selected, tickCalls, primaryErr>>

\* pid.Calculate(current): the caller keeps the output and the terms; it stands
\* at pid_first after the first call since construction or Reset
PIDCalculate ==
    /\ pcMain \in {"pid_new", "pid_first", "pid_later", "pid_reset", "pid_set"}
    /\ pcMain' = IF pid.FirstRun THEN "pid_first" ELSE "pid_later"
    /\ \E current \in TestCurrents :
         LET r == Calculate(pid, current, now)
         IN  /\ pid' = [r.pid EXCEPT !.PrevTime = 0]
             /\ pidOutput' = r.output
             /\ pidTerms' = r.terms
    /\ now' = 0
    /\ UNCHANGED <<dryRun, config, pcLoop, sigChan, call, lastCmd,
                   consecutiveIPMIFailures, diskTemps, cpuTemp, fanDuty,
                   emergencyReason, fanSpeeds, unitCall, cachedK10TempPath, metrics, selected,
                   tickCalls, primaryErr>>

\* pid.Reset()
PIDReset ==
    /\ pcMain \in {"pid_first", "pid_later", "pid_set"}
    /\ pcMain' = "pid_reset"
    /\ pid' = Reset(pid)
    /\ UNCHANGED <<dryRun, config, pcLoop, sigChan, call, lastCmd, now,
                   consecutiveIPMIFailures, diskTemps, cpuTemp, fanDuty,
                   emergencyReason, pidTerms, pidOutput, fanSpeeds, unitCall, cachedK10TempPath,
                   metrics, selected, tickCalls, primaryErr>>

NextPID ==
    \/ PIDTimePasses
    \/ PIDCalculate
    \/ PIDReset

SpecPID == InitPID /\ [][NextPID]_vars

\* targets passed to SetTarget (1/Scale degrees): 38 and 40
TestTargets == { 160 }

\* the number of setter calls made so far, kept with the caller
SetterCalls == IF unitCall.fn = "none" THEN 0 ELSE unitCall.n


\* pid.SetTarget(target)
PIDSetTarget ==
    /\ UNCHANGED cachedK10TempPath
    /\ pcMain \in {"pid_new", "pid_first", "pid_later", "pid_reset", "pid_set"}
    /\ SetterCalls < MaxSetterCalls
    /\ pcMain' = "pid_set"
    /\ unitCall' = [fn |-> "setter", n |-> SetterCalls + 1]
    /\ \E target \in TestTargets : pid' = [pid EXCEPT !.Target = target]
    /\ UNCHANGED <<dryRun, config, pcLoop, sigChan, call, lastCmd, now,
                   consecutiveIPMIFailures, diskTemps, cpuTemp, fanDuty,
                   emergencyReason, pidTerms, pidOutput, fanSpeeds,
                   metrics, selected, tickCalls, primaryErr>>

\* pid.SetGains(kp, ki, kd)
PIDSetGains ==
    /\ UNCHANGED cachedK10TempPath
    /\ pcMain \in {"pid_new", "pid_first", "pid_later", "pid_reset", "pid_set"}
    /\ SetterCalls < MaxSetterCalls
    /\ pcMain' = "pid_set"
    /\ unitCall' = [fn |-> "setter", n |-> SetterCalls + 1]
    /\ \E g \in TestGains :
         pid' = [pid EXCEPT !.Kp = g[1], !.Ki = KiTenths, !.Kd = g[2]]
    /\ UNCHANGED <<dryRun, config, pcLoop, sigChan, call, lastCmd, now,
                   consecutiveIPMIFailures, diskTemps, cpuTemp, fanDuty,
                   emergencyReason, pidTerms, pidOutput, fanSpeeds,
                   metrics, selected, tickCalls, primaryErr>>

\* pid.SetLimits(minOutput, maxOutput)
PIDSetLimits ==
    /\ UNCHANGED cachedK10TempPath
    /\ pcMain \in {"pid_new", "pid_first", "pid_later", "pid_reset", "pid_set"}
    /\ SetterCalls < MaxSetterCalls
    /\ pcMain' = "pid_set"
    /\ unitCall' = [fn |-> "setter", n |-> SetterCalls + 1]
    /\ \E l \in TestLimits :
         pid' = [pid EXCEPT !.MinOutput = l[1] * Scale,
                            !.MaxOutput = l[2] * Scale]
    /\ UNCHANGED <<dryRun, config, pcLoop, sigChan, call, lastCmd, now,
                   consecutiveIPMIFailures, diskTemps, cpuTemp, fanDuty,
                   emergencyReason, pidTerms, pidOutput, fanSpeeds,
                   metrics, selected, tickCalls, primaryErr>>

\* pid.SetIntegralMax(integralMax), the argument positive
PIDSetIntegralMax ==
    /\ UNCHANGED cachedK10TempPath
    /\ pcMain \in {"pid_new", "pid_first", "pid_later", "pid_reset", "pid_set"}
    /\ SetterCalls < MaxSetterCalls
    /\ pcMain' = "pid_set"
    /\ unitCall' = [fn |-> "setter", n |-> SetterCalls + 1]
    /\ \E m \in TestIntegralMax : pid' = [pid EXCEPT !.IntegralMax = m * Scale]
    /\ UNCHANGED <<dryRun, config, pcLoop, sigChan, call, lastCmd, now,
                   consecutiveIPMIFailures, diskTemps, cpuTemp, fanDuty,
                   emergencyReason, pidTerms, pidOutput, fanSpeeds,
                   metrics, selected, tickCalls, primaryErr>>

\* the controller with its setters
NextPIDSetters ==
    \/ NextPID
    \/ PIDSetTarget
    \/ PIDSetGains
    \/ PIDSetLimits
    \/ PIDSetIntegralMax

\* the controller of TestPIDController_SetIntegralMax, its limit at 10
InitPIDSetters ==
    InitUnit("pid_new",
             NewPIDController(0, 10, 0, TargetHDD * Scale, 0, 100 * Scale,
                              10 * Scale))

SpecPIDSetters == InitPIDSetters /\ [][NextPIDSetters]_vars

----------------------------------------------------------------------------
(* The temperature functions of sensors.go, called by themselves *)

AllDisks == <<"sda", "sdb", "sdc", "sdd">>
TestDisks == { AllDisks[i] : i \in 1..MaxDisks }

\* disk temperatures (degrees) passed in the maps
TestTemps == { -5, 0, 35, 40 }
TestTempMaps == UNION { [ds -> TestTemps] : ds \in SUBSET TestDisks }
TestN == (-1)..MaxN

\* the caller holds a map and no result for it yet
NoResults ==
    [fn |-> "temps", done |-> {}, n |-> 0, avg |-> [sum |-> 0, take |-> 1],
     max |-> 0, min |-> 0]

InitSensors == InitUnit("sensors", MainPID(DefaultFans))

\* the caller builds a temperature map, kept in diskTemps, to call the three
\* functions on
SensorsInput ==
    /\ UNCHANGED cachedK10TempPath
    /\ pcMain = "sensors"
    /\ pcMain' = "sensors_temps"
    /\ diskTemps' \in TestTempMaps
    /\ unitCall' = NoResults
    /\ UNCHANGED <<dryRun, config, pcLoop, sigChan, call, lastCmd, now,
                   pid, consecutiveIPMIFailures, cpuTemp, fanDuty,
                   emergencyReason, pidTerms, pidOutput, fanSpeeds, metrics,
                   selected, tickCalls, primaryErr>>

\* GetAverageOfWarmest(diskTemps, n), the range taking any order
CallAverageOfWarmest ==
    /\ UNCHANGED cachedK10TempPath
    /\ pcMain = "sensors_temps"
    /\ \E n \in TestN, order \in IterationOrders(DOMAIN diskTemps) :
         unitCall' = [unitCall EXCEPT
                        !.done = @ \cup {"avg"},
                        !.n = n,
                        !.avg = GetAverageOfWarmestIn(diskTemps, order, n)]
    /\ UNCHANGED <<dryRun, config, pcMain, pcLoop, sigChan, call, lastCmd, now,
                   pid, consecutiveIPMIFailures, diskTemps, cpuTemp, fanDuty,
                   emergencyReason, pidTerms, pidOutput, fanSpeeds, metrics,
                   selected, tickCalls, primaryErr>>

\* GetMaxTemperature(diskTemps), the range taking any order
CallMaxTemperature ==
    /\ UNCHANGED cachedK10TempPath
    /\ pcMain = "sensors_temps"
    /\ \E order \in IterationOrders(DOMAIN diskTemps) :
         unitCall' = [unitCall EXCEPT
                        !.done = @ \cup {"max"},
                        !.max = GetMaxTemperatureIn(diskTemps, order)]
    /\ UNCHANGED <<dryRun, config, pcMain, pcLoop, sigChan, call, lastCmd, now,
                   pid, consecutiveIPMIFailures, diskTemps, cpuTemp, fanDuty,
                   emergencyReason, pidTerms, pidOutput, fanSpeeds, metrics,
                   selected, tickCalls, primaryErr>>

\* GetMinTemperature(diskTemps), its two ranges taking any orders
CallMinTemperature ==
    /\ UNCHANGED cachedK10TempPath
    /\ pcMain = "sensors_temps"
    /\ \E order \in IterationOrders(DOMAIN diskTemps) :
         IF DOMAIN diskTemps = {}
         THEN unitCall' = [unitCall EXCEPT
                             !.done = @ \cup {"min"},
                             !.min = GetMinTemperatureIn(diskTemps, "", order)]
         ELSE \E first \in DOMAIN diskTemps :
                unitCall' = [unitCall EXCEPT
                               !.done = @ \cup {"min"},
                               !.min = GetMinTemperatureIn(diskTemps, first,
                                                           order)]
    /\ UNCHANGED <<dryRun, config, pcMain, pcLoop, sigChan, call, lastCmd, now,
                   pid, consecutiveIPMIFailures, diskTemps, cpuTemp, fanDuty,
                   emergencyReason, pidTerms, pidOutput, fanSpeeds, metrics,
                   selected, tickCalls, primaryErr>>

\* what discoverSpinningDisks can return: an error, or the names found
Discoveries ==
    { [err |-> TRUE, disks |-> <<>>] } \cup
    { [err |-> FALSE, disks |-> s] :
        s \in UNION { IterationOrders(ds) : ds \in SUBSET TestDisks } }

\* what GetDiskTemperature can return for a disk: (0, err) or (temp, nil)
ReadOutcomes ==
    { [temp |-> 0, err |-> TRUE] } \cup
    { [temp |-> t, err |-> FALSE] : t \in {0, 38} }

\* temps[disk] = temp
MapPut(temps, disk, temp) ==
    [d \in DOMAIN temps \cup {disk} |-> IF d = disk THEN temp ELSE temps[d]]

\* variant: the value returned with the error is stored
ReadOne_KeepsUnreadable(temps, disk, r) == MapPut(temps, disk, r.temp)

\* GetAllDiskTemperatures, one round of the loop over disks: a failed read is
\* logged and skipped
ReadOne(temps, disk, r) ==
    IF r.err THEN temps ELSE MapPut(temps, disk, r.temp)

RECURSIVE ReadDisks(_, _, _)
ReadDisks(disks, reads, temps) ==
    IF disks = <<>> THEN temps
    ELSE ReadDisks(Tail(disks), reads,
                   ReadOne(temps, Head(disks), reads[Head(disks)]))

\* GetAllDiskTemperatures for one outcome of the discovery and of each read
GetAllDiskTemperatures(discovery, reads) ==
    IF discovery.err THEN [temps |-> EmptyTemps, err |-> TRUE]
    ELSE IF Len(discovery.disks) = 0 THEN [temps |-> EmptyTemps, err |-> TRUE]
    ELSE LET temps == ReadDisks(discovery.disks, reads, EmptyTemps)
         IN  IF DOMAIN temps = {} THEN [temps |-> EmptyTemps, err |-> TRUE]
             ELSE [temps |-> temps, err |-> FALSE]

\* GetAllDiskTemperatures(excludePatterns), called once
CallAllDiskTemperatures ==
    /\ UNCHANGED cachedK10TempPath
    /\ pcMain = "sensors"
    /\ pcMain' = "sensors_disks"
    /\ \E discovery \in Discoveries, reads \in [TestDisks -> ReadOutcomes] :
         unitCall' = [fn |-> "GetAllDiskTemperatures",
                      discovery |-> discovery,
                      reads |-> reads,
                      ret |-> GetAllDiskTemperatures(discovery, reads)]
    /\ UNCHANGED <<dryRun, config, pcLoop, sigChan, call, lastCmd, now,
                   pid, consecutiveIPMIFailures, diskTemps, cpuTemp, fanDuty,
                   emergencyReason, pidTerms, pidOutput, fanSpeeds, metrics,
                   selected, tickCalls, primaryErr>>

NextSensors ==
    \/ SensorsInput
    \/ CallAverageOfWarmest
    \/ CallMaxTemperature
    \/ CallMinTemperature
    \/ CallAllDiskTemperatures

SpecSensors == InitSensors /\ [][NextSensors]_vars

----------------------------------------------------------------------------
(* config.go: LoadConfig, setDefaults, Validate *)

\* a float64 field: a number in tenths, or NaN (YAML `.nan`)
Num(v) == [nan |-> FALSE, v |-> v]
NaN == [nan |-> TRUE, v |-> 0]

\* float64 comparisons: each is false when an operand is NaN
FEq(a, b) == ~a.nan /\ ~b.nan /\ a.v = b.v
FLt(a, b) == ~a.nan /\ ~b.nan /\ a.v < b.v
FLe(a, b) == ~a.nan /\ ~b.nan /\ a.v <= b.v
FGe(a, b) == ~a.nan /\ ~b.nan /\ a.v >= b.v

\* the fields of Config, the sections flattened
FloatFields == {"TargetHDD", "MaxHDD", "MaxCPU", "Kp", "Ki", "Kd", "IntegralMax"}
IntFields ==
    {"MetricsPort", "PollInterval", "WarmestDisks", "MinDuty", "MaxDuty",
     "StartupDuty"}
Fields == FloatFields \cup IntFields \cup {"LogLevel", "ExcludePatterns"}

\* the value yaml.Unmarshal leaves in a field the file does not mention
ZeroValue(f) ==
    IF f \in FloatFields THEN Num(0)
    ELSE IF f = "LogLevel" THEN ""
    ELSE IF f = "ExcludePatterns" THEN <<>>
    ELSE 0

\* the field holds its zero value
IsZero(f, v) ==
    IF f \in FloatFields THEN FEq(v, Num(0))
    ELSE IF f = "LogLevel" THEN v = ""
    ELSE IF f = "ExcludePatterns" THEN Len(v) = 0
    ELSE v = 0

DefaultPatterns == <<"^loop", "^sr", "^zram", "^zd", "^dm-">>

\* the defaults of setDefaults (float64 in tenths, poll_interval in seconds)
DefaultValue(f) ==
    CASE f = "MetricsPort" -> 9090
      [] f = "LogLevel" -> "info"
      [] f = "TargetHDD" -> Num(TargetHDD * 10)
      [] f = "MaxHDD" -> Num(MaxHDD * 10)
      [] f = "MaxCPU" -> Num(MaxCPU * 10)
      [] f = "PollInterval" -> PollInterval
      [] f = "WarmestDisks" -> WarmestDisks
      [] f = "MinDuty" -> DefaultFans.MinDuty
      [] f = "MaxDuty" -> DefaultFans.MaxDuty
      [] f = "StartupDuty" -> DefaultFans.StartupDuty
      [] f = "Kp" -> Num(Kp * 10)
      [] f = "Ki" -> Num(KiTenths)
      [] f = "Kd" -> Num(Kd * 10)
      [] f = "IntegralMax" -> Num(IntegralMax * 10)
      [] f = "ExcludePatterns" -> DefaultPatterns

\* yaml.Unmarshal into a zero Config: a file is a function from the fields it
\* mentions to their values
Unmarshal(file) ==
    [f \in Fields |-> IF f \in DOMAIN file THEN file[f] ELSE ZeroValue(f)]

\* setDefaults: every field that holds its zero value gets its default
setDefaults(c) ==
    [f \in Fields |-> IF IsZero(f, c[f]) THEN DefaultValue(f) ELSE c[f]]

LogLevels == {"debug", "info", "warn", "error"}

\* Config.Validate: "nil", or the name of the first check that fails
Validate(c) ==
    IF FGe(c.TargetHDD, c.MaxHDD) THEN "target_hdd must be less than max_hdd"
    ELSE IF FLe(c.TargetHDD, Num(0)) THEN "target_hdd must be positive"
    ELSE IF FLe(c.MaxHDD, Num(0)) THEN "max_hdd must be positive"
    ELSE IF FLe(c.MaxCPU, Num(0)) THEN "max_cpu must be positive"
    ELSE IF c.PollInterval <= 0 THEN "poll_interval must be positive"
    ELSE IF c.WarmestDisks <= 0 THEN "warmest_disks must be positive"
    ELSE IF ~ValidateFans(c) THEN "fans"
    ELSE IF FLt(c.Kp, Num(0)) THEN "kp must be non-negative"
    ELSE IF FLt(c.Ki, Num(0)) THEN "ki must be non-negative"
    ELSE IF FLt(c.Kd, Num(0)) THEN "kd must be non-negative"
    ELSE IF FLe(c.IntegralMax, Num(0)) THEN "integral_max must be positive"
    ELSE IF c.MetricsPort <= 0 \/ c.MetricsPort > 65535
         THEN "metrics_port must be between 1-65535"
    ELSE IF c.LogLevel \notin LogLevels THEN "log_level"
    ELSE "nil"

\* LoadConfig on a file that was read and parsed
LoadConfig(file) ==
    LET c == setDefaults(Unmarshal(file))
    IN  [config |-> c, err |-> Validate(c)]

\* values a file can give a field: around the limits Validate compares with
TestValues(f) ==
    CASE f = "MetricsPort" -> {-1, 0, 1, 8080, 65535, 65536}
      [] f = "LogLevel" -> {"", "debug", "warn", "error", "trace"}
      [] f = "TargetHDD" -> {NaN, Num(-10), Num(0), Num(350), Num(450)}
      [] f = "MaxHDD" -> {NaN, Num(-10), Num(0), Num(350), Num(450)}
      [] f = "MaxCPU" -> {NaN, Num(-10), Num(0), Num(800)}
      [] f = "PollInterval" -> {-1, 0, 10}
      [] f = "WarmestDisks" -> {-1, 0, 1}
      [] f = "MinDuty" -> {-1, 0, 20, 90, 101}
      [] f = "MaxDuty" -> {-1, 0, 20, 90, 101}
      [] f = "StartupDuty" -> {-1, 0, 60, 100, 101}
      [] f = "Kp" -> {NaN, Num(-10), Num(0), Num(30)}
      [] f = "Ki" -> {NaN, Num(-1), Num(0), Num(2)}
      [] f = "Kd" -> {NaN, Num(-10), Num(0), Num(150)}
      [] f = "IntegralMax" -> {NaN, Num(-10), Num(0), Num(100)}
      [] f = "ExcludePatterns" -> {<<>>, <<"^nvme">>}

\* a file that sets every field to a valid value other than the default
CompleteFile ==
    [f \in Fields |->
        CASE f = "MetricsPort" -> 8080
          [] f = "LogLevel" -> "debug"
          [] f = "TargetHDD" -> Num(350)
          [] f = "MaxHDD" -> Num(450)
          [] f = "MaxCPU" -> Num(800)
          [] f = "PollInterval" -> 10
          [] f = "WarmestDisks" -> 1
          [] f = "MinDuty" -> 20
          [] f = "MaxDuty" -> 90
          [] f = "StartupDuty" -> 60
          [] f = "Kp" -> Num(30)
          [] f = "Ki" -> Num(2)
          [] f = "Kd" -> Num(150)
          [] f = "IntegralMax" -> Num(100)
          [] f = "ExcludePatterns" -> <<"^nvme">>]

\* the file without the field, and the file with another value for it
Without(file, f) == [g \in DOMAIN file \ {f} |-> file[g]]
With(file, f, v) == [g \in DOMAIN file \cup {f} |-> IF g = f THEN v ELSE file[g]]

\* the files reached from CompleteFile by up to k such changes
RECURSIVE FilesWithin(_)
FilesWithin(k) ==
    IF k = 0 THEN {CompleteFile}
    ELSE LET files == FilesWithin(k - 1)
         IN  files
             \cup { Without(file, f) : file \in files, f \in Fields }
             \cup UNION { { With(file, f, v) : v \in TestValues(f) } :
                           file \in files, f \in Fields }

TestFiles == FilesWithin(MaxEdits)

InitConfig == InitUnit("load_config", MainPID(DefaultFans))

\* main: LoadConfig(*configPath); log.Fatalf on an error
MainLoadConfig ==
    /\ UNCHANGED cachedK10TempPath
    /\ pcMain = "load_config"
    /\ \E file \in TestFiles :
         LET r == LoadConfig(file)
         IN  /\ unitCall' = [fn |-> "LoadConfig", file |-> file,
                              config |-> r.config, err |-> r.err]
             /\ pcMain' = IF r.err # "nil" THEN "exited" ELSE "loaded"
    /\ UNCHANGED <<dryRun, config, pcLoop, sigChan, call, lastCmd, now, pid,
                   consecutiveIPMIFailures, diskTemps, cpuTemp, fanDuty,
                   emergencyReason, pidTerms, pidOutput, fanSpeeds, metrics,
                   selected, tickCalls, primaryErr>>

\* the first fan command of a process that loaded its configuration: the
\* priming SetAllFans(StartupDuty) of runControlLoop, taken as run at once
MainFirstCommand ==
    /\ pcMain = "loaded"
    /\ pcMain' = "running"
    /\ lastCmd' = unitCall.config.StartupDuty
    /\ UNCHANGED <<dryRun, config, pcLoop, sigChan, call, now, pid,
                   consecutiveIPMIFailures, diskTemps, cpuTemp, fanDuty,
                   emergencyReason, pidTerms, pidOutput, fanSpeeds, unitCall, cachedK10TempPath,
                   metrics, selected, tickCalls, primaryErr>>

NextConfig ==
    \/ MainLoadConfig
    \/ MainFirstCommand

SpecConfig == InitConfig /\ [][NextConfig]_vars

----------------------------------------------------------------------------
(* sensors.go: GetCPUTemperature and the cached k10temp path *)

\* /sys/class/hwmon/hwmon*/name as filepath.Glob lists it: the directories in
\* lexical order, each name file holding a driver name or being unreadable
HwmonDirs == { "/sys/class/hwmon/hwmon0", "/sys/class/hwmon/hwmon1",
               "/sys/class/hwmon/hwmon2" }
HwmonNames == { "k10temp", "nvme", "unreadable" }
DirOrder(d) ==
    CASE d = "/sys/class/hwmon/hwmon0" -> 0
      [] d = "/sys/class/hwmon/hwmon1" -> 1
      [] OTHER -> 2
HwmonListings ==
    { <<>> }
    \cup { <<[dir |-> d, name |-> n]>> : d \in HwmonDirs, n \in HwmonNames }
    \cup { <<[dir |-> ds[1], name |-> n1], [dir |-> ds[2], name |-> n2]>> :
             ds \in { x \in HwmonDirs \X HwmonDirs :
                        DirOrder(x[1]) < DirOrder(x[2]) },
             n1 \in HwmonNames, n2 \in HwmonNames }

\* what temp1_input holds when it is read: unreadable, not a number, or
\* millidegrees
TempInputs ==
    { [err |-> "read", milli |-> 0], [err |-> "parse", milli |-> 0] }
    \cup { [err |-> "nil", milli |-> t] : t \in { 35000, 45500, 72250 } }

\* findK10TempPath: the directory of the first readable name file that holds
\* "k10temp"; path "" and an error when there is none
RECURSIVE findK10TempPath(_)
findK10TempPath(matches) ==
    IF matches = <<>>
    THEN [path |-> "", err |-> "k10temp sensor not found in /sys/class/hwmon/"]
    ELSE IF Head(matches).name = "k10temp"
    THEN [path |-> Head(matches).dir, err |-> "nil"]
    ELSE findK10TempPath(Tail(matches))

\* readCPUTempFromPath: the temperature is float64(millidegrees) / 1000.0, kept
\* here as the exact quotient in thousandths of a degree
readCPUTempFromPath(hwmonPath, input) ==
    IF input.err = "read"
    THEN [temp |-> 0, err |-> "failed to read CPU temperature from " \o hwmonPath]
    ELSE IF input.err = "parse"
    THEN [temp |-> 0, err |-> "failed to parse CPU temperature"]
    ELSE [temp |-> input.milli, err |-> "nil"]

\* a variant that drops the cached path when the read from it fails
GetCPUTemperature_Invalidates(cached, matches, input) ==
    LET found == findK10TempPath(matches)
        path == IF cached # "" THEN cached ELSE found.path
        res == readCPUTempFromPath(path, input)
    IN  IF cached = "" /\ found.err # "nil"
        THEN [cache |-> cached, discovery |-> TRUE, path |-> "",
              temp |-> 0, err |-> "failed to find k10temp sensor"]
        ELSE [cache |-> IF res.err # "nil" THEN "" ELSE path,
              discovery |-> (cached = ""), path |-> path,
              temp |-> res.temp, err |-> res.err]

\* GetCPUTemperature with the package variable as an argument: `cache` is the
\* variable afterwards, `discovery` whether findK10TempPath ran, `path` the
\* directory read from
GetCPUTemperature(cached, matches, input) ==
    IF cached # ""
    THEN LET res == readCPUTempFromPath(cached, input)
         IN  [cache |-> cached, discovery |-> FALSE, path |-> cached,
              temp |-> res.temp, err |-> res.err]
    ELSE LET found == findK10TempPath(matches)
         IN  IF found.err # "nil"
             THEN [cache |-> cached, discovery |-> TRUE, path |-> "",
                   temp |-> 0, err |-> "failed to find k10temp sensor"]
             ELSE LET res == readCPUTempFromPath(found.path, input)
                  IN  [cache |-> found.path, discovery |-> TRUE,
                       path |-> found.path,
                       temp |-> res.temp, err |-> res.err]

\* the calls made so far, kept with the caller
CPUCalls == IF unitCall.fn = "none" THEN 0 ELSE unitCall.calls

InitCPUTemp == InitUnit("cpu_temp", MainPID(DefaultFans))

\* one call of GetCPUTemperature; /sys/class/hwmon and temp1_input are whatever
\* they are at that moment
CallGetCPUTemperature ==
    /\ pcMain = "cpu_temp"
    /\ CPUCalls < MaxCalls
    /\ \E matches \in HwmonListings, input \in TempInputs :
         LET r == GetCPUTemperature(cachedK10TempPath, matches, input)
         IN  /\ cachedK10TempPath' = r.cache
             /\ unitCall' = [fn |-> "GetCPUTemperature", calls |-> CPUCalls + 1,
                             matches |-> matches, discovery |-> r.discovery,
                             path |-> r.path, temp |-> r.temp, err |-> r.err]
    /\ UNCHANGED <<dryRun, config, pcMain, pcLoop, sigChan, call, lastCmd, now,
                   pid, consecutiveIPMIFailures, diskTemps, cpuTemp, fanDuty,
                   emergencyReason, pidTerms, pidOutput, fanSpeeds, metrics,
                   selected, tickCalls, primaryErr>>

NextCPUTemp == CallGetCPUTemperature

SpecCPUTemp == InitCPUTemp /\ [][NextCPUTemp]_vars

----------------------------------------------------------------------------
(* ipmi.go: TestIPMICommand, run by main for --test-ipmi *)

\* fan speeds GetFanSpeeds may report during the self-test
TestFans == { "FAN1", "FAN2" }
TestRPMs == { 500, 1000, 2000 }
TestSpeedReports ==
    UNION { [fans -> TestRPMs] : fans \in SUBSET TestFans \ { {} } }

\* the loop over `adjusted`: the fans also in `baseline` whose new speed lies
\* within int(baseline * 0.4) .. int(baseline * 0.6); the products are whole
\* numbers for the speeds tried
Responded(baseline, adjusted) ==
    { fan \in DOMAIN adjusted :
        /\ fan \in DOMAIN baseline
        /\ adjusted[fan] >= (baseline[fan] * 4) \div 10
        /\ adjusted[fan] <= (baseline[fan] * 6) \div 10 }
changesDetected(baseline, adjusted) == Cardinality(Responded(baseline, adjusted))

\* TestIPMICommand before its first statement
InitTestIPMI == InitUnit("ipmi_baseline", MainPID(DefaultFans))

\* TestIPMICommand returns err; set50 tells whether SetAllFans(50) had succeeded
ReturnTestIPMI(err, set50) ==
    /\ pcMain' = "ipmi_returned"
    /\ unitCall' = [fn |-> "TestIPMICommand", err |-> err, set50 |-> set50]

\* baseline, err := GetFanSpeeds(); then SetAllFans(50) is entered
IPMIBaseline ==
    /\ pcMain = "ipmi_baseline"
    /\ \/ /\ ReturnTestIPMI("failed to get baseline fan speeds", FALSE)
          /\ UNCHANGED <<call, fanSpeeds>>
       \/ /\ \E baseline \in TestSpeedReports : fanSpeeds' = baseline
          /\ pcMain' = "ipmi_set50"
          /\ call' = [call EXCEPT !["main"] = Invoke(50)]
          /\ UNCHANGED unitCall
    /\ UNCHANGED <<dryRun, config, pcLoop, sigChan, lastCmd, now, pid,
                   consecutiveIPMIFailures, diskTemps, cpuTemp, fanDuty,
                   emergencyReason, pidTerms, pidOutput, cachedK10TempPath,
                   metrics, selected, tickCalls, primaryErr>>

\* SetAllFans(50) returned; on success the 10 s wait and
\* adjusted, err := GetFanSpeeds(), the count of the fans that responded, and
\* the entry of SetAllFans(100)
IPMIAdjusted ==
    /\ pcMain = "ipmi_set50"
    /\ call["main"].st = "done"
    /\ now' = 0
    /\ IF call["main"].ret # "nil"
       THEN /\ ReturnTestIPMI("failed to set fans to 50%", FALSE)
            /\ call' = [call EXCEPT !["main"] = Idle]
       ELSE \/ /\ ReturnTestIPMI("failed to get adjusted fan speeds", TRUE)
               /\ call' = [call EXCEPT !["main"] = Idle]
            \/ \E adjusted \in TestSpeedReports :
                 IF changesDetected(fanSpeeds, adjusted) = 0
                 THEN /\ ReturnTestIPMI("no fan speed changes detected", TRUE)
                      /\ call' = [call EXCEPT !["main"] = Idle]
                 ELSE /\ pcMain' = "ipmi_reset"
                      /\ call' = [call EXCEPT !["main"] = Invoke(100)]
                      /\ UNCHANGED unitCall
    /\ UNCHANGED <<dryRun, config, pcLoop, sigChan, lastCmd, pid,
                   consecutiveIPMIFailures, diskTemps, cpuTemp, fanDuty,
                   emergencyReason, pidTerms, pidOutput, fanSpeeds,
                   cachedK10TempPath, metrics, selected, tickCalls, primaryErr>>

\* SetAllFans(100) returned; on success the 10 s wait and the final
\* GetFanSpeeds, whose speeds are only logged
IPMIFinal ==
    /\ pcMain = "ipmi_reset"
    /\ call["main"].st = "done"
    /\ now' = 0
    /\ call' = [call EXCEPT !["main"] = Idle]
    /\ IF call["main"].ret # "nil"
       THEN ReturnTestIPMI("failed to reset fans to 100%", TRUE)
       ELSE \/ ReturnTestIPMI("failed to get final fan speeds", TRUE)
            \/ ReturnTestIPMI("nil", TRUE)
    /\ UNCHANGED <<dryRun, config, pcLoop, sigChan, lastCmd, pid,
                   consecutiveIPMIFailures, diskTemps, cpuTemp, fanDuty,
                   emergencyReason, pidTerms, pidOutput, fanSpeeds,
                   cachedK10TempPath, metrics, selected, tickCalls, primaryErr>>

NextTestIPMI ==
    \/ IPMIBaseline
    \/ IPMIAdjusted
    \/ IPMIFinal
    \/ SetAllFansExec("main")
    \/ SetAllFansSleep("main")

SpecTestIPMI == InitTestIPMI /\ [][NextTestIPMI]_vars

----------------------------------------------------------------------------
(* ipmi.go: GetFanSpeeds *)

\* A line of `ipmitool sensor` is kept as its first three columns, each without
\* the blanks around it and written as a sequence of characters.
Digits == { "0", "7", "9" }
DigitValue(c) == CASE c = "0" -> 0 [] c = "7" -> 7 [] OTHER -> 9
WordChars == Digits \cup { "1", "A", "C", "F", "N", "P", "U", "_" }

TestSensorNames ==
    { <<"F", "A", "N", "1">>, <<"F", "A", "N", "A">>, <<"F", "A", "N">>,
      <<"C", "P", "U">> }
TestReadings ==
    { <<"9", "0", "0">>, <<"7", ".", "9">>, <<".", "9">>, <<"7", ".">>,
      <<".">>, <<"n", "a">> }
TestUnits == { "RPM", "degrees C" }
TestLines == [name : TestSensorNames, reading : TestReadings, unit : TestUnits]

\* the output of ipmitool: whether the command failed, the lines, and whether
\* the scanner gave up on an overlong line behind them
RECURSIVE LinesUpTo(_)
LinesUpTo(n) ==
    IF n = 0 THEN { <<>> }
    ELSE LinesUpTo(n - 1)
         \cup { Append(ls, l) : ls \in { x \in LinesUpTo(n - 1) : Len(x) = n - 1 },
                                l \in TestLines }
TestReports ==
    { [failed |-> TRUE, lines |-> <<>>, scanErr |-> FALSE] }
    \cup { [failed |-> FALSE, lines |-> ls, scanErr |-> e] :
             ls \in LinesUpTo(MaxLines), e \in BOOLEAN }

\* fanRegex, group 1: FAN\w+
MatchesFanName(name) ==
    /\ Len(name) >= 4
    /\ SubSeq(name, 1, 3) = <<"F", "A", "N">>
    /\ \A i \in 4..Len(name) : name[i] \in WordChars

\* fanRegex, group 2: [0-9.]+|na
MatchesReading(reading) ==
    \/ reading = <<"n", "a">>
    \/ /\ Len(reading) >= 1
       /\ \A i \in 1..Len(reading) : reading[i] \in Digits \cup { "." }

\* fanRegex.FindStringSubmatch(line) has its three elements
MatchesFanRegex(line) ==
    /\ MatchesFanName(line.name)
    /\ MatchesReading(line.reading)
    /\ line.unit = "RPM"

\* the decimal number written by a sequence of digits
RECURSIVE DecimalValue(_)
DecimalValue(ds) ==
    IF ds = <<>> THEN 0
    ELSE DecimalValue(SubSeq(ds, 1, Len(ds) - 1)) * 10 + DigitValue(ds[Len(ds)])

\* 10 to the power n
RECURSIVE Pow10(_)
Pow10(n) == IF n = 0 THEN 1 ELSE 10 * Pow10(n - 1)

\* strconv.ParseFloat(rpmStr, 64) for a string of digits and dots: an error
\* unless there is a digit and at most one dot; the value is kept in
\* thousandths, exact for the up to three decimals tried
ParseFloat(rpmStr) ==
    LET dots == { i \in 1..Len(rpmStr) : rpmStr[i] = "." }
        point == IF dots = {} THEN Len(rpmStr) + 1 ELSE CHOOSE i \in dots : TRUE
        whole == SubSeq(rpmStr, 1, point - 1)
        frac == SubSeq(rpmStr, point + 1, Len(rpmStr))
    IN  IF Cardinality(dots) > 1 \/ Cardinality(dots) = Len(rpmStr)
        THEN [ok |-> FALSE, milli |-> 0]
        ELSE [ok |-> TRUE,
              milli |-> DecimalValue(whole) * 1000
                        + (DecimalValue(frac) * 1000) \div Pow10(Len(frac))]

\* int(rpm) of a non-negative float64: the fraction is dropped
IntOf(milli) == milli \div 1000

\* variant: a fan reporting `na` is recorded with speed 0
ScanLine_RecordsNa(speeds, line) ==
    IF ~MatchesFanRegex(line) THEN speeds
    ELSE IF line.reading = <<"n", "a">>
    THEN [f \in DOMAIN speeds \cup { line.name } |->
            IF f = line.name THEN 0 ELSE speeds[f]]
    ELSE IF ~ParseFloat(line.reading).ok THEN speeds
    ELSE [f \in DOMAIN speeds \cup { line.name } |->
            IF f = line.name THEN IntOf(ParseFloat(line.reading).milli)
            ELSE speeds[f]]

\* the body of the scanner loop: the map fanSpeeds after `line`
ScanLine(speeds, line) ==
    IF ~MatchesFanRegex(line) THEN speeds
    ELSE IF line.reading = <<"n", "a">> THEN speeds
    ELSE IF ~ParseFloat(line.reading).ok THEN speeds
    ELSE [f \in DOMAIN speeds \cup { line.name } |->
            IF f = line.name THEN IntOf(ParseFloat(line.reading).milli)
            ELSE speeds[f]]

\* the scanner loop over the lines, first to last
RECURSIVE ScanLines(_, _)
ScanLines(speeds, lines) ==
    IF lines = <<>> THEN speeds
    ELSE ScanLines(ScanLine(speeds, Head(lines)), Tail(lines))

\* GetFanSpeeds on a report: the map (nil is the empty map) and the error
GetFanSpeeds(report) ==
    IF report.failed
    THEN [speeds |-> <<>>, err |-> "failed to read IPMI sensors"]
    ELSE LET speeds == ScanLines(<<>>, report.lines)
         IN  IF report.scanErr
             THEN [speeds |-> <<>>, err |-> "failed to parse IPMI sensor output"]
             ELSE IF DOMAIN speeds = {}
             THEN [speeds |-> <<>>, err |-> "no fan sensors found in IPMI output"]
             ELSE [speeds |-> speeds, err |-> "nil"]

InitFanSpeeds == InitUnit("fan_speeds", MainPID(DefaultFans))

\* one call of GetFanSpeeds
CallGetFanSpeeds ==
    /\ pcMain = "fan_speeds"
    /\ pcMain' = "fan_speeds_done"
    /\ \E report \in TestReports :
         unitCall' = [fn |-> "GetFanSpeeds", report |-> report,
                      speeds |-> GetFanSpeeds(report).speeds,
                      err |-> GetFanSpeeds(report).err]
    /\ UNCHANGED <<dryRun, config, pcLoop, sigChan, call, lastCmd, now, pid,
                   consecutiveIPMIFailures, diskTemps, cpuTemp, fanDuty,
                   emergencyReason, pidTerms, pidOutput, fanSpeeds,
                   cachedK10TempPath, metrics, selected, tickCalls, primaryErr>>

NextFanSpeeds == CallGetFanSpeeds

SpecFanSpeeds == InitFanSpeeds /\ [][NextFanSpeeds]_vars

----------------------------------------------------------------------------
(* sensors.go: matchesExcludePattern *)

\* device names of /sys/block and exclude patterns, as sequences of characters
TestDevices == { <<"s", "d", "a">>, <<"s", "r", "0">>, <<"m", "d", "0">> }
TestPatterns ==
    { <<"^", "s", "r">>, <<"^", "s", "d">>, <<"d", "0">>, <<"[", "s", "r">>,
      <<"^", "[", "s">> }

RECURSIVE PatternListsUpTo(_)
PatternListsUpTo(n) ==
    IF n = 0 THEN { <<>> }
    ELSE PatternListsUpTo(n - 1)
         \cup { Append(ps, p) :
                  ps \in { x \in PatternListsUpTo(n - 1) : Len(x) = n - 1 },
                  p \in TestPatterns }

\* regexp.Compile for patterns made of an optional leading ^, literal
\* characters and [ ... ] classes: a [ that is never closed is an error;
\* otherwise the pattern is its anchor and its literal
Compile(pattern) ==
    LET opens == { i \in 1..Len(pattern) : pattern[i] = "[" }
        closed(i) == \E j \in (i + 1)..Len(pattern) : pattern[j] = "]"
        anchored == Len(pattern) >= 1 /\ pattern[1] = "^"
    IN  IF \E i \in opens : ~closed(i)
        THEN [err |-> "missing closing ]", anchored |-> FALSE, literal |-> <<>>]
        ELSE [err |-> "nil", anchored |-> anchored,
              literal |-> IF anchored THEN Tail(pattern) ELSE pattern]

\* the literal stands in s at position i
OccursAt(literal, s, i) ==
    /\ i + Len(literal) - 1 <= Len(s)
    /\ SubSeq(s, i, i + Len(literal) - 1) = literal

\* regexp.MatchString(pattern, s): an error for a pattern that does not
\* compile; otherwise whether the pattern matches somewhere in s, at the start
\* only when it is anchored
MatchString(pattern, s) ==
    LET re == Compile(pattern)
    IN  IF re.err # "nil" THEN [matched |-> FALSE, err |-> re.err]
        ELSE [matched |-> IF re.anchored THEN OccursAt(re.literal, s, 1)
                          ELSE \E i \in 1..(Len(s) + 1) : OccursAt(re.literal, s, i),
              err |-> "nil"]

RECURSIVE matchesExcludePattern_StopsAtInvalid(_, _)
RECURSIVE matchesExcludePattern(_, _)

\* variant: an invalid pattern ends the search
matchesExcludePattern_StopsAtInvalid(device, patterns) ==
    IF patterns = <<>> THEN FALSE
    ELSE IF MatchString(Head(patterns), device).err # "nil" THEN FALSE
    ELSE IF MatchString(Head(patterns), device).matched THEN TRUE
    ELSE matchesExcludePattern_StopsAtInvalid(device, Tail(patterns))

\* matchesExcludePattern: the patterns in order; an invalid one is logged and
\* skipped, the first match returns true
matchesExcludePattern(device, patterns) ==
    IF patterns = <<>> THEN FALSE
    ELSE IF MatchString(Head(patterns), device).err # "nil"
    THEN matchesExcludePattern(device, Tail(patterns))
    ELSE IF MatchString(Head(patterns), device).matched THEN TRUE
    ELSE matchesExcludePattern(device, Tail(patterns))

InitExclude == InitUnit("exclude", MainPID(DefaultFans))

\* one call of matchesExcludePattern
CallMatchesExcludePattern ==
    /\ pcMain = "exclude"
    /\ pcMain' = "exclude_done"
    /\ \E device \in TestDevices, patterns \in PatternListsUpTo(MaxPatterns) :
         unitCall' = [fn |-> "matchesExcludePattern", device |-> device,
                      patterns |-> patterns,
                      result |-> matchesExcludePattern(device, patterns)]
    /\ UNCHANGED <<dryRun, config, pcLoop, sigChan, call, lastCmd, now, pid,
                   consecutiveIPMIFailures, diskTemps, cpuTemp, fanDuty,
                   emergencyReason, pidTerms, pidOutput, fanSpeeds,
                   cachedK10TempPath, metrics, selected, tickCalls, primaryErr>>

NextExclude == CallMatchesExcludePattern

SpecExclude == InitExclude /\ [][NextExclude]_vars

---------------------------------------------------------------------------
(* Properties *)

InBand(d) == config.MinDuty <= d /\ d <= config.MaxDuty

\* the latest successful read showed a temperature emergency
TempEmergency ==
    \/ cpuTemp > MaxCPU * Scale
    \/ GetMaxTemperature(diskTemps) > MaxHDD

\* C1: in a tick whose read succeeded with cpuTemp > MaxCPU or the hottest disk
\* above MaxHDD, the selected duty is 100 and, outside dry-run, 100 is what the
\* tick passes to SetAllFans, whatever the PID state and the configured band
C1_EmergencySelectsFullDuty ==
    TempEmergency =>
        /\ selected.duty = 100
        /\ fanDuty = 100
        /\ ~dryRun => tickCalls # <<>> /\ tickCalls[1] = 100
        /\ pcLoop = "actuate" => call["loop"].duty = 100

C1_Witness ==
    /\ TempEmergency
    /\ pcLoop = "actuate"
    /\ call["loop"].st = "exec"
    /\ call["loop"].duty = 100
    /\ ~pid.FirstRun
    /\ pid.Integral # 0
    /\ config.MaxDuty < 100

\* C2: outside dry-run, once main's shutdown SetAllFans(100) has returned, the
\* latest command sent to the BMC is the 100% one
C2_LastCommandAfterShutdownIsFull ==
    (~dryRun /\ pcMain = "wait_done") => lastCmd = 100

\* C3: once main has received the shutdown signal the loop starts no further
\* iteration (it exits when the current one has returned)
C3_LoopExitsAfterSignal ==
    [][pcMain # "wait_sig"
         => ~(pcLoop \in {"sleep", "sleep_err"} /\ pcLoop' = "read")]_vars

\* C4: main's SetAllFans and the loop's SetAllFans are never in flight together
C4_NoConcurrentSetAllFans ==
    ~(/\ call["main"].st \in {"exec", "sleep"}
      /\ call["loop"].st \in {"exec", "sleep"})

\* the tick's primary SetAllFans failed and brought the counter to the threshold
Escalated == primaryErr /\ consecutiveIPMIFailures >= 5

\* C5: outside dry-run, a tick whose SetAllFans(duty) fails with the counter
\* reaching 5 or more forces reason ipmi_failure and duty 100, calls
\* SetAllFans(100) exactly once more and publishes duty 100 with ipmi_failure;
\* a failure that leaves the counter below 5 keeps reason and duty as selected
\* and makes no further call
C5_EscalationAtThreshold ==
    (~dryRun /\ primaryErr /\ pcLoop \in {"escalate", "observe", "publish", "sleep"}) =>
        IF consecutiveIPMIFailures >= 5
        THEN /\ emergencyReason = "ipmi_failure"
             /\ fanDuty = 100
             /\ tickCalls = <<selected.duty, 100>>
             /\ pcLoop = "escalate" => call["loop"].duty = 100
             /\ pcLoop = "sleep" =>
                  /\ metrics.FanDutyPercent = 100
                  /\ metrics.EmergencyMode["ipmi_failure"] = 1
        ELSE /\ emergencyReason = selected.reason
             /\ fanDuty = selected.duty
             /\ tickCalls = <<selected.duty>>
             /\ pcLoop # "escalate"
             /\ pcLoop = "sleep" => metrics.FanDutyPercent = selected.duty

C5_Witness ==
    /\ ~dryRun
    /\ pcLoop = "sleep"
    /\ primaryErr
    /\ consecutiveIPMIFailures = 5
    /\ selected.reason = ""
    /\ selected.duty < 100
    /\ metrics.FanDutyPercent = 100

\* C6: the counter moves only when the tick's primary SetAllFans returns: up by
\* exactly 1 on an error (one call, however many attempts), to 0 on success;
\* the priming call, the escalation's call, a tick skipped for a read error and
\* every dry-run tick leave it as it is
C6_CounterCountsPrimaryCalls ==
    [][IF pcLoop = "actuate" /\ pcLoop' # "actuate"
       THEN consecutiveIPMIFailures' =
                IF call["loop"].ret = "nil" THEN 0 ELSE consecutiveIPMIFailures + 1
       ELSE consecutiveIPMIFailures' = consecutiveIPMIFailures]_vars

C6_Witness ==
    /\ consecutiveIPMIFailures = 2
    /\ pcLoop = "sleep_err"

\* C7: a tick that did not escalate never carries reason ipmi_failure: its
\* reason is the temperature predicate's, its duty 100 in an emergency and the
\* PID's duty otherwise, and a successful SetAllFans leaves the counter at 0,
\* also after an earlier escalation
C7_IpmiFailureNotLatched ==
    pcLoop \in {"observe", "publish", "sleep"} =>
        /\ emergencyReason = "ipmi_failure" <=> Escalated
        /\ (~dryRun /\ ~primaryErr) => consecutiveIPMIFailures = 0
        /\ ~Escalated =>
             /\ emergencyReason =
                    (IF cpuTemp > MaxCPU * Scale THEN "cpu_temp"
                     ELSE IF GetMaxTemperature(diskTemps) > MaxHDD THEN "hdd_temp"
                     ELSE "")
             /\ emergencyReason # "" => fanDuty = 100
             /\ emergencyReason = "" =>
                  fanDuty = NormalDuty(clamp(pidTerms.P + pidTerms.I + pidTerms.D,
                                             config.MinDuty * Scale,
                                             config.MaxDuty * Scale), config)

\* the first successful tick after an escalation was published
C7_Witness ==
    /\ pcLoop = "observe"
    /\ metrics.FanDutyPercent = 100
    /\ metrics.EmergencyMode["ipmi_failure"] = 1
    /\ metrics.EmergencyMode["cpu_temp"] = 0
    /\ ~primaryErr
    /\ consecutiveIPMIFailures = 0
    /\ emergencyReason = ""
    /\ fanDuty < 100

\* the loop detected a failure in the tick that just ended
TickFailed ==
    \/ pcLoop = "sleep_err"
    \/ pcLoop = "sleep" /\ primaryErr

\* C8 (as claimed): outside dry-run, whenever a tick ends after a failed read or
\* a failed actuation, the latest duty commanded is 100
C8_FailureCommandsFullDuty == (~dryRun /\ TickFailed) => lastCmd = 100

\* C8 (amended): a tick whose actuation failure brings the counter to 5 or more
\* ends with 100 as the latest duty commanded; a tick skipped for a read error
\* commands nothing and a failure below the threshold commands nothing further
C8_EscalationCommandsFullDuty ==
    /\ (pcLoop \in {"observe", "publish", "sleep"} /\ Escalated) => lastCmd = 100
    /\ pcLoop = "sleep_err" => tickCalls = <<>>
    /\ (pcLoop = "sleep" /\ primaryErr /\ ~Escalated) => Len(tickCalls) = 1

C8_Witness ==
    /\ ~dryRun
    /\ pcLoop = "sleep"
    /\ Escalated
    /\ selected.duty < 100
    /\ lastCmd = 100
    /\ pcMain = "wait_sig"

\* C9 (as claimed): every duty passed to SetAllFans is inside the configured
\* band or equals 100
C9_OutOfBandIsFullDuty ==
    \A p \in Procs :
        call[p].st # "idle" => (InBand(call[p].duty) \/ call[p].duty = 100)

\* C9 (amended): every duty passed to SetAllFans by a tick, by the escalation
\* or by the shutdown handoff is inside the band or equals 100; the priming
\* command passes StartupDuty, which lies in 0..100
C9_OutOfBandAfterPrimingIsFullDuty ==
    /\ call["main"].st # "idle" => call["main"].duty = 100
    /\ (call["loop"].st # "idle" /\ pcLoop # "prime_set") =>
           (InBand(call["loop"].duty) \/ call["loop"].duty = 100)
    /\ pcLoop = "prime_set" =>
           /\ call["loop"].duty = config.StartupDuty
           /\ call["loop"].duty \in 0..100

C9_Witness ==
    /\ pcLoop = "actuate"
    /\ call["loop"].st = "exec"
    /\ call["loop"].duty = 100
    /\ ~InBand(100)
    /\ emergencyReason = "hdd_temp"

\* C10: SetAllFans returns its range error exactly for the duties outside
\* 0..100, before any ipmitool run and any sleep, so every raw command carries
\* a duty in 0..100; the program itself (validated configuration) never gets
\* that error
C10_OutOfRangeDutyRejected ==
    /\ \A p \in Procs :
          /\ call[p].st = "done" =>
                (call[p].ret = "invalid" <=> (call[p].duty < 0 \/ call[p].duty > 100))
          /\ call[p].ret = "invalid" => (call[p].st = "done" /\ call[p].attempt = 0)
          /\ call[p].st \in {"exec", "sleep"} => call[p].duty \in 0..100
    /\ (pcMain = "test" /\ call["main"].ret = "invalid") =>
          (lastCmd = NoCmd /\ now = 0)
    /\ lastCmd \in {NoCmd} \cup (0..100)
    /\ pcMain # "test" => \A p \in Procs : call[p].ret # "invalid"

C10_Witness ==
    /\ pcMain = "test"
    /\ call["main"].st = "done"
    /\ call["main"].ret = "invalid"
    /\ call["main"].duty = 101

\* C11: in every tick without a temperature emergency the PID output is
\* clamp(P + I + D) to [MinDuty, MaxDuty], the selected duty is that output with
\* its fraction cut off, clamped to [MinDuty, MaxDuty], it lies in the band, and
\* it is the duty the tick passes to SetAllFans
C11_NormalDutyInBand ==
    (pcLoop \in {"actuate", "escalate", "observe", "publish", "sleep"}
       /\ selected.reason = "") =>
        /\ InBand(selected.duty)
        /\ pidOutput = clamp(pidTerms.P + pidTerms.I + pidTerms.D,
                             config.MinDuty * Scale, config.MaxDuty * Scale)
        /\ pidOutput >= 0
        /\ LET d == pidOutput \div Scale
           IN  /\ d * Scale <= pidOutput
               /\ pidOutput < (d + 1) * Scale
               /\ selected.duty = clamp(d, config.MinDuty, config.MaxDuty)
        /\ pcLoop = "actuate" => call["loop"].duty = selected.duty

\* a normal tick whose PID output is strictly inside the band and not whole
C11_Witness ==
    /\ pcLoop = "actuate"
    /\ selected.reason = ""
    /\ pidOutput % Scale # 0
    /\ config.MinDuty * Scale < pidOutput
    /\ pidOutput < config.MaxDuty * Scale
    /\ call["loop"].duty * Scale < pidOutput

\* C12: a SetAllFans call with a valid duty runs ipmitool at most 3 times, each
\* run but the latest having failed; it returns nil right after the first
\* successful run and an error exactly when 3 runs have failed; it has slept
\* once per failed run that was not the third (2 s each) and never after a
\* success; every call starts at attempt 1 with nothing carried over
C12_RetryBudgetPerCall ==
    \A p \in Procs :
        LET f == call[p]
        IN  (f.st # "idle" /\ f.ret # "invalid") =>
              /\ f.attempt \in 1..3
              /\ f.st = "exec" =>
                    (f.ret = "none" /\ f.fails = f.attempt - 1
                                   /\ f.sleeps = f.attempt - 1)
              /\ f.st = "sleep" =>
                    (f.ret = "none" /\ f.fails = f.attempt /\ f.attempt < 3
                                   /\ f.sleeps = f.attempt - 1)
              /\ f.st = "done" => f.ret \in {"nil", "failed"}
              /\ f.ret = "nil" => (f.fails = f.attempt - 1 /\ f.sleeps = f.fails)
              /\ f.ret = "failed" <=> (f.st = "done" /\ f.fails = 3)
              /\ f.ret = "failed" => (f.attempt = 3 /\ f.sleeps = 2)
              /\ pcMain = "test" => now = RetrySleep * f.sleeps

\* after a tick whose call failed, the next tick's call succeeds at its second
\* run, having slept once
C12_Witness ==
    /\ pcLoop = "actuate"
    /\ consecutiveIPMIFailures >= 1
    /\ call["loop"].st = "done"
    /\ call["loop"].ret = "nil"
    /\ call["loop"].attempt = 2
    /\ call["loop"].sleeps = 1

C14_EmergencyPredicate ==
    pcMain = "emergency_checked" =>
        LET cpu == cpuTemp
            maxDisk == diskTemps["max"]
        IN  /\ emergencyReason = "cpu_temp" <=> cpu > MaxCPU * Scale
            /\ emergencyReason = "hdd_temp" <=>
                    (cpu <= MaxCPU * Scale /\ maxDisk > MaxHDD)
            /\ emergencyReason = "" <=>
                    (cpu <= MaxCPU * Scale /\ maxDisk <= MaxHDD)
            /\ (cpu = MaxCPU * Scale /\ maxDisk = MaxHDD) => emergencyReason = ""
            /\ (cpu > MaxCPU * Scale /\ maxDisk > MaxHDD) =>
                    emergencyReason = "cpu_temp"

\* the CPU exactly at its threshold, the hottest disk one degree above its own
C14_Witness ==
    /\ pcMain = "emergency_checked"
    /\ cpuTemp = MaxCPU * Scale
    /\ diskTemps["max"] = MaxHDD + 1
    /\ emergencyReason = "hdd_temp"

PIDCalculated == pcMain \in {"pid_first", "pid_later"}

\* this step is a call of Calculate on the controller by itself
PIDCalculateStep ==
    /\ pcMain \in {"pid_new", "pid_first", "pid_later", "pid_reset"}
    /\ pcMain' \in {"pid_first", "pid_later"}
    /\ now' = 0

C18_DerivativeTerm ==
    [][PIDCalculateStep =>
         LET dt == now - pid.PrevTime
         IN  /\ pcMain \in {"pid_new", "pid_reset"} => pidTerms'.D = 0
             /\ (pcMain \in {"pid_first", "pid_later"} /\ dt = 0) =>
                    pidTerms'.D = 0
             /\ (pcMain \in {"pid_first", "pid_later"} /\ dt # 0) =>
                    /\ dt > 0
                    /\ pidTerms'.D =
                          TruncDiv(pid.Kd * (pidTerms'.Error - pid.PrevError), dt)]_vars

\* a first call off the target with Kd > 0
C18_Witness ==
    /\ pcMain = "pid_first"
    /\ pid.Kd > 0
    /\ pidTerms.Error # 0
    /\ pidTerms.D = 0
    /\ pidTerms.P # 0

\* C19: with MinOutput >= 0 a first call at the target returns error 0, P = 0,
\* D = 0 and output MinOutput, and a second call at the target returns the same
\* output
C19_ZeroErrorGivesMinOutput ==
    [][(PIDCalculateStep /\ pid.MinOutput >= 0 /\ pidTerms'.Error = 0) =>
         /\ pcMain \in {"pid_new", "pid_reset"} =>
                /\ pidTerms'.P = 0
                /\ pidTerms'.D = 0
                /\ pidOutput' = pid.MinOutput
         /\ (pcMain = "pid_first" /\ pidTerms.Error = 0) =>
                pidOutput' = pidOutput]_vars

\* after a second call at the target, with a positive MinOutput
C19_Witness ==
    /\ pcMain = "pid_later"
    /\ pidTerms = ZeroTerms
    /\ pid.Integral = 0
    /\ pid.PrevError = 0
    /\ pid.MinOutput > 0
    /\ pidOutput = pid.MinOutput

\* C20: Reset sets Integral = 0, PrevError = 0 and FirstRun = true and leaves
\* gains, target, limits and IntegralMax as they are; the Calculate call that
\* follows a Reset returns the output and terms a freshly built controller with
\* the same parameters returns for the same input
C20_ResetEqualsFresh ==
    [][/\ pcMain' = "pid_reset" =>
            /\ pid'.Integral = 0
            /\ pid'.PrevError = 0
            /\ pid'.FirstRun = TRUE
            /\ <<pid'.Kp, pid'.Ki, pid'.Kd, pid'.Target>>
                  = <<pid.Kp, pid.Ki, pid.Kd, pid.Target>>
            /\ <<pid'.MinOutput, pid'.MaxOutput, pid'.IntegralMax>>
                  = <<pid.MinOutput, pid.MaxOutput, pid.IntegralMax>>
       /\ (pcMain = "pid_reset" /\ PIDCalculateStep) =>
            LET fresh == NewPIDController(pid.Kp, pid.Ki, pid.Kd, pid.Target,
                                          pid.MinOutput, pid.MaxOutput,
                                          pid.IntegralMax)
                r == Calculate(fresh, pid.Target + pidTerms'.Error, now)
            IN  /\ pidOutput' = r.output
                /\ pidTerms' = r.terms]_vars

\* a Reset after calls that had built up an integral and an error
C20_Witness ==
    /\ pcMain = "pid_reset"
    /\ pidTerms.I # 0
    /\ pidTerms.Error # 0
    /\ pid.Integral = 0
    /\ pid.PrevError = 0
    /\ pid.FirstRun

\* the step is the computation of a tick whose read showed a temperature
\* emergency
EmergencyTickStep ==
    /\ pcLoop = "read"
    /\ pcLoop' \in {"actuate", "observe"}
    /\ emergencyReason' # ""

\* C21: a tick in a temperature emergency leaves the controller's Integral,
\* PrevError, PrevTime and FirstRun (and every other field) as the previous
\* tick left them, no later step of the tick touches the controller, and the
\* PID terms the tick publishes are all zero
C21_EmergencyTickLeavesPID ==
    [][/\ EmergencyTickStep => (pid' = pid /\ now' = now /\ pidTerms' = ZeroTerms)
       /\ pcLoop \in {"actuate", "escalate", "observe", "publish"} =>
             (pid' = pid /\ pidTerms' = pidTerms)
       /\ (pcLoop = "publish" /\ pcLoop' = "sleep" /\ TempEmergency) =>
             metrics'.PIDTerms = ZeroTerms]_vars

\* a temperature emergency was published by a tick that found the controller
\* with an accumulated integral and a previous error
C21_Witness ==
    /\ pcLoop = "sleep"
    /\ TempEmergency
    /\ emergencyReason \in {"cpu_temp", "hdd_temp"}
    /\ ~pid.FirstRun
    /\ pid.Integral # 0
    /\ pid.PrevError # 0
    /\ metrics.PIDTerms = ZeroTerms

\* C22 (as claimed): with Ki = 0 the output of Calculate is
\* clamp(Kp * error + D, MinOutput, MaxOutput), the stored integral playing no
\* part; with Kp = 2, Kd = 0 and error 3.25 that is 6.5 before clamping
C22_ZeroKiIgnoresIntegral ==
    (PIDCalculated /\ pid.Ki = 0) =>
        pidOutput = clamp(pidTerms.P + pidTerms.D, pid.MinOutput, pid.MaxOutput)

\* the tick's metrics have been published
Published == pcLoop = "sleep"

\* C23 (as claimed): after the publication of a tick that ended in an emergency
\* with reason cpu_temp, hdd_temp or ipmi_failure, the emergency-mode gauge
\* labelled with that reason is 1
C23_ActiveReasonGaugeIsOne ==
    (Published /\ emergencyReason # "") =>
        metrics.EmergencyMode[emergencyReason] = 1

\* C24 (as claimed): after the publication of any tick the emergency-mode gauge
\* of every known reason other than the tick's reason is 0 (a label that was
\* never set exports nothing and counts as 0 here); after a tick without
\* emergency all three are 0, ipmi_failure included
C24_OtherReasonGaugesAreZero ==
    Published =>
        \A r \in Reasons \ {emergencyReason} :
            metrics.EmergencyMode[r] \in {0, Absent}

\* the order of the statements of runControlLoop: priming, then per tick the
\* read with the duty computation, the actuation (skipped in dry-run) with its
\* escalation, the readback, the publication and the sleep
TickOrder ==
    { <<"prime", "prime_set">>, <<"prime", "read">>, <<"prime_set", "read">>,
      <<"read", "sleep_err">>, <<"sleep_err", "read">>,
      <<"read", "actuate">>, <<"read", "observe">>,
      <<"actuate", "escalate">>, <<"actuate", "observe">>,
      <<"escalate", "observe">>,
      <<"observe", "publish">>, <<"publish", "sleep">>, <<"sleep", "read">> }

\* the gauges UpdateAllMetrics writes
Gauges(g) == <<g.FanDutyPercent, g.PIDTerms, g.EmergencyMode>>

\* C25: the steps of a tick happen in the order read, duty computation,
\* actuation, RPM readback, publication: temperatures, terms and the selected
\* duty are set by the read step alone, the loop is inside SetAllFans only
\* between that step and the readback, fan speeds are obtained only by the
\* readback, the gauges are written only by the publication and then hold
\* the tick's values, and the next read follows the sleep after publication
C25_TickOrder ==
    [][/\ pcLoop' # pcLoop => <<pcLoop, pcLoop'>> \in TickOrder
       /\ <<diskTemps, cpuTemp, pidTerms, selected>>'
             # <<diskTemps, cpuTemp, pidTerms, selected>> => pcLoop = "read"
       /\ (pcLoop \in {"read", "observe", "publish", "sleep", "sleep_err"}) =>
             call["loop"].st = "idle"
       /\ fanDuty' # fanDuty => pcLoop \in {"read", "actuate"}
       /\ fanSpeeds' # fanSpeeds =>
             \/ pcLoop = "observe" /\ pcLoop' = "publish"
             \/ pcLoop = "read" /\ fanSpeeds' = EmptySpeeds
       /\ Gauges(metrics)' # Gauges(metrics) =>
             pcLoop = "publish" /\ pcLoop' = "sleep"
       /\ (pcLoop = "publish" /\ pcLoop' = "sleep") =>
             /\ metrics'.FanDutyPercent = fanDuty
             /\ metrics'.PIDTerms = pidTerms]_vars

\* a second tick is about to read: the tick before it went through actuation
\* and readback, and its duty and terms are what the gauges hold
C25_Witness ==
    /\ pcLoop = "read"
    /\ ~dryRun
    /\ Len(tickCalls) = 1
    /\ fanSpeeds # EmptySpeeds
    /\ call["loop"].st = "idle"
    /\ fanDuty > 0
    /\ metrics.FanDutyPercent = fanDuty
    /\ metrics.PIDTerms = pidTerms
    /\ pidTerms # ZeroTerms

\* the sum of the map's values over a set of keys
RECURSIVE SumOver(_, _)
SumOver(temps, keys) ==
    IF keys = {} THEN 0
    ELSE LET k == CHOOSE x \in keys : TRUE
         IN  temps[k] + SumOver(temps, keys \ {k})

\* k keys none of which is cooler than a key left out
WarmestKeys(temps, k) ==
    CHOOSE K \in SUBSET DOMAIN temps :
        /\ Cardinality(K) = k
        /\ \A a \in K, b \in DOMAIN temps \ K : temps[a] >= temps[b]

\* GetAverageOfWarmest was called on a non-empty map with n >= 1
AverageCalled ==
    /\ unitCall.fn = "temps"
    /\ "avg" \in unitCall.done
    /\ DOMAIN diskTemps # {}
    /\ unitCall.n >= 1

NonNegative(temps) == \A d \in DOMAIN temps : temps[d] >= 0

\* C26: for a non-empty map and n >= 1, GetAverageOfWarmest returns the sum of
\* the min(n, |T|) largest values divided by their number, whatever order the
\* map is ranged in; the values 35 and 40 with n = 5 give 37.5
C26_MeanOfWarmest ==
    AverageCalled =>
        LET size == Cardinality(DOMAIN diskTemps)
            k == IF unitCall.n < size THEN unitCall.n ELSE size
        IN  /\ unitCall.avg.take = k
            /\ unitCall.avg.sum = SumOver(diskTemps, WarmestKeys(diskTemps, k))
            /\ (diskTemps = [d \in {"sda", "sdb"} |->
                                IF d = "sda" THEN 35 ELSE 40] /\ unitCall.n = 5)
                  => 2 * unitCall.avg.sum = 75 * unitCall.avg.take

\* the mean of the two warmest of three disks, the coolest left out
C26_Witness ==
    /\ AverageCalled
    /\ Cardinality(DOMAIN diskTemps) = 3
    /\ unitCall.n = 2
    /\ diskTemps["sda"] = 35
    /\ diskTemps["sdb"] = 0
    /\ diskTemps["sdc"] = 40
    /\ unitCall.avg = [sum |-> 75, take |-> 2]

\* C27: for a non-empty map of non-negative temperatures and n >= 1 the result
\* of GetAverageOfWarmest lies between those of GetMinTemperature and
\* GetMaxTemperature on the same map
C27_MeanBetweenMinAndMax ==
    (AverageCalled /\ {"min", "max"} \subseteq unitCall.done
       /\ NonNegative(diskTemps)) =>
        /\ unitCall.avg.take > 0
        /\ unitCall.min * unitCall.avg.take <= unitCall.avg.sum
        /\ unitCall.avg.sum <= unitCall.max * unitCall.avg.take

\* all three functions were called on 0, 35, 40 with n = 2: 0 < 37.5 < 40
C27_Witness ==
    /\ AverageCalled
    /\ unitCall.done = {"avg", "min", "max"}
    /\ NonNegative(diskTemps)
    /\ unitCall.n = 2
    /\ unitCall.min = 0
    /\ unitCall.max = 40
    /\ unitCall.avg = [sum |-> 75, take |-> 2]

\* C28 (as claimed): for n <= 0, a non-empty map included, GetAverageOfWarmest
\* returns the number 0.0: the dividend is 0 and the divisor is not
C28_NonPositiveNGivesZero ==
    (unitCall.fn = "temps" /\ "avg" \in unitCall.done /\ unitCall.n <= 0) =>
        /\ ~IsNaN(unitCall.avg)
        /\ unitCall.avg.take # 0
        /\ unitCall.avg.sum = 0

\* C29: on a non-empty map of non-negative temperatures GetMaxTemperature
\* returns the greatest and GetMinTemperature the least value; on the empty
\* map these two and GetAverageOfWarmest return 0; each call returns a value
\* for every map, n and order of the range
C29_MaxMinAndEmptyMap ==
    unitCall.fn = "temps" =>
        LET values == { diskTemps[d] : d \in DOMAIN diskTemps }
            usual == values # {} /\ NonNegative(diskTemps)
        IN  /\ ("max" \in unitCall.done /\ usual) =>
                  /\ unitCall.max \in values
                  /\ \A v \in values : v <= unitCall.max
            /\ ("min" \in unitCall.done /\ usual) =>
                  /\ unitCall.min \in values
                  /\ \A v \in values : unitCall.min <= v
            /\ ("max" \in unitCall.done /\ values = {}) => unitCall.max = 0
            /\ ("min" \in unitCall.done /\ values = {}) => unitCall.min = 0
            /\ ("avg" \in unitCall.done /\ values = {}) =>
                  unitCall.avg.sum = 0 /\ unitCall.avg.take # 0
            /\ unitCall.max \in Int
            /\ unitCall.min \in Int
            /\ unitCall.avg.sum \in Int /\ unitCall.avg.take \in Int

\* maximum and minimum of the non-negative temperatures of three disks
C29_Witness ==
    /\ unitCall.fn = "temps"
    /\ {"min", "max"} \subseteq unitCall.done
    /\ Cardinality(DOMAIN diskTemps) = 3
    /\ NonNegative(diskTemps)
    /\ unitCall.max = 40
    /\ unitCall.min = 35

\* the three functions have returned 0 for the empty map
C29_EmptyMapWitness ==
    /\ unitCall.fn = "temps"
    /\ unitCall.done = {"avg", "min", "max"}
    /\ diskTemps = EmptyTemps
    /\ unitCall.max = 0
    /\ unitCall.min = 0

\* the disks of this call whose read succeeded
Readable ==
    { d \in TestDisks :
        /\ ~unitCall.discovery.err
        /\ \E i \in DOMAIN unitCall.discovery.disks :
             unitCall.discovery.disks[i] = d
        /\ ~unitCall.reads[d].err }

\* C30: the map GetAllDiskTemperatures returns has exactly the discovered
\* disks whose read succeeded as keys, each with the temperature read in this
\* call, and the call returns an error exactly when there is no such disk
C30_ReadableDisksOnly ==
    unitCall.fn = "GetAllDiskTemperatures" =>
        /\ unitCall.ret.err <=> Readable = {}
        /\ ~unitCall.ret.err =>
              /\ DOMAIN unitCall.ret.temps = Readable
              /\ \A d \in Readable :
                   unitCall.ret.temps[d] = unitCall.reads[d].temp

\* three disks discovered, one unreadable: the call succeeds with the other two
C30_Witness ==
    /\ unitCall.fn = "GetAllDiskTemperatures"
    /\ Len(unitCall.discovery.disks) = 3
    /\ unitCall.reads["sdb"].err
    /\ ~unitCall.ret.err
    /\ DOMAIN unitCall.ret.temps = {"sda", "sdc"}

\* the validation invariants, stated on the values: every float64 field is a
\* number, and the numbers are ordered as required
InvariantsHold(c) ==
    /\ \A f \in FloatFields : ~c[f].nan
    /\ 0 < c.TargetHDD.v /\ c.TargetHDD.v < c.MaxHDD.v
    /\ c.MaxCPU.v > 0
    /\ c.PollInterval > 0
    /\ c.WarmestDisks >= 1
    /\ 0 <= c.MinDuty /\ c.MinDuty < c.MaxDuty /\ c.MaxDuty <= 100
    /\ 0 <= c.StartupDuty /\ c.StartupDuty <= 100
    /\ c.Kp.v >= 0 /\ c.Ki.v >= 0 /\ c.Kd.v >= 0
    /\ c.IntegralMax.v > 0
    /\ 1 <= c.MetricsPort /\ c.MetricsPort <= 65535
    /\ c.LogLevel \in LogLevels

\* LoadConfig has returned
ConfigLoaded == unitCall.fn = "LoadConfig"

\* C31 (as claimed): Validate returns nil exactly when the validation
\* invariants hold for the configuration it is given, which it leaves as it
\* is, and a process whose LoadConfig fails exits without a fan command
C31_ValidateIffInvariants ==
    ConfigLoaded =>
        /\ unitCall.err = "nil" <=> InvariantsHold(unitCall.config)
        /\ unitCall.config = setDefaults(Unmarshal(unitCall.file))
        /\ unitCall.err # "nil" => (pcMain = "exited" /\ lastCmd = NoCmd)

\* the same for configurations without NaN: there Validate returns nil
\* exactly when the invariants hold
ValidateOnNumbers ==
    (ConfigLoaded /\ \A f \in FloatFields : ~unitCall.config[f].nan) =>
        /\ unitCall.err = "nil" <=> InvariantsHold(unitCall.config)
        /\ unitCall.err # "nil" => (pcMain = "exited" /\ lastCmd = NoCmd)

\* C37 (as claimed): after setDefaults every field the file sets holds the
\* file's value, an explicit 0 included, every field the file leaves out
\* holds its default, and a second setDefaults changes nothing
C37_DefaultsOnlyForAbsentFields ==
    ConfigLoaded =>
        /\ \A f \in DOMAIN unitCall.file :
             unitCall.config[f] = unitCall.file[f]
        /\ \A f \in Fields \ DOMAIN unitCall.file :
             unitCall.config[f] = DefaultValue(f)
        /\ setDefaults(unitCall.config) = unitCall.config

\* the parts of it that hold: absent fields get their defaults, fields set to
\* something other than the zero value are kept, setDefaults is idempotent
DefaultsForZeroValues ==
    ConfigLoaded =>
        /\ \A f \in DOMAIN unitCall.file :
             ~IsZero(f, unitCall.file[f]) =>
                 unitCall.config[f] = unitCall.file[f]
        /\ \A f \in Fields \ DOMAIN unitCall.file :
             unitCall.config[f] = DefaultValue(f)
        /\ setDefaults(unitCall.config) = unitCall.config

\* hex bytes written out for duties on both sides of each digit boundary
KnownHex ==
    [d \in {0, 9, 10, 15, 16, 26, 30, 31, 32, 50, 99, 100} |->
        CASE d = 0 -> "0x00" [] d = 9 -> "0x09" [] d = 10 -> "0x0a"
          [] d = 15 -> "0x0f" [] d = 16 -> "0x10" [] d = 26 -> "0x1a"
          [] d = 30 -> "0x1e" [] d = 31 -> "0x1f" [] d = 32 -> "0x20"
          [] d = 50 -> "0x32" [] d = 99 -> "0x63" [] d = 100 -> "0x64"]

\* the frame is a call of SetAllFans that got past the range check
InCall(f) == f.st \in {"exec", "sleep"} \/ (f.st = "done" /\ f.ret # "invalid")

\* the 19 arguments for a duty: raw 0x3a 0xd6, six times the same four
\* characters, ten times 0x64
WellFormedArgs(f) ==
    /\ Len(f.args) = 19
    /\ f.args[1] = "raw" /\ f.args[2] = "0x3a" /\ f.args[3] = "0xd6"
    /\ \A i \in 4..9 : f.args[i] = f.args[4]
    /\ Len(f.args[4]) = 4
    /\ \A i \in 10..19 : f.args[i] = "0x64"
    /\ f.duty \in DOMAIN KnownHex => f.args[4] = KnownHex[f.duty]

\* C32: for every duty in 0..100 each ipmitool run of a SetAllFans call gets
\* the same 19 arguments: raw, 0x3a, 0xd6, six copies of the duty as 0x and
\* two lowercase hex digits, ten copies of 0x64
C32_ArgumentVector ==
    [][\A p \in Procs :
         /\ InCall(call[p]) =>
               /\ call[p].duty \in 0..100
               /\ WellFormedArgs(call[p])
         /\ (InCall(call[p]) /\ call'[p].st # "idle") =>
               call'[p].args = call[p].args]_vars

\* the third attempt of SetAllFans(10) is about to run with 0x0a
C32_Witness ==
    /\ call["main"].st = "exec"
    /\ call["main"].attempt = 3
    /\ call["main"].duty = 10
    /\ call["main"].args =
         <<"raw", "0x3a", "0xd6", "0x0a", "0x0a", "0x0a", "0x0a", "0x0a",
           "0x0a", "0x64", "0x64", "0x64", "0x64", "0x64", "0x64", "0x64",
           "0x64", "0x64", "0x64">>

\* C33: outside dry-run the loop calls SetAllFans(StartupDuty) once, before
\* its first read and never again; when that call returns, failed or not, the
\* loop goes on to its first read with the failure counter and the error
\* counters as they were
C33_PrimingOnceAndHarmless ==
    [][/\ (pcLoop = "prime" /\ pcLoop' # "prime") =>
             /\ IF dryRun THEN pcLoop' = "read" ELSE pcLoop' = "prime_set"
             /\ ~dryRun => call'["loop"] = Invoke(config.StartupDuty)
       /\ pcLoop = "prime_set" =>
             /\ call["loop"].duty = config.StartupDuty
             /\ pcLoop' \in {"prime_set", "read"}
             /\ (call["loop"].st = "done" /\ pcLoop' = "prime_set") =>
                   call'["loop"] = call["loop"]
             /\ consecutiveIPMIFailures' = 0
             /\ metrics' = metrics
       /\ pcLoop \in {"prime", "prime_set"} =>
             (diskTemps = EmptyTemps /\ tickCalls = <<>>)
       /\ pcLoop \notin {"prime", "prime_set"} =>
             pcLoop' \notin {"prime", "prime_set"}]_vars

\* the priming command has failed in all three attempts and is about to
\* return: the counter and the error counters are untouched
C33_Witness ==
    /\ ~dryRun
    /\ pcLoop = "prime_set"
    /\ call["loop"].st = "done"
    /\ call["loop"].ret = "failed"
    /\ call["loop"].duty = config.StartupDuty
    /\ call["loop"].fails = 3
    /\ consecutiveIPMIFailures = 0
    /\ metrics.ErrorsTotal["ipmi"] = 0

\* C34 (as claimed): in every state of a controller reached by Calculate,
\* Reset and the setters (SetIntegralMax with positive arguments), the stored
\* Integral is within [-IntegralMax, IntegralMax]
C34_IntegralWithinLimitAlways ==
    pcMain \in {"pid_new", "pid_first", "pid_later", "pid_reset", "pid_set"} =>
        /\ -pid.IntegralMax <= pid.Integral
        /\ pid.Integral <= pid.IntegralMax

\* what holds instead: the Integral is within the limit after every Calculate
\* and every Reset, and the I term of a result never exceeds the limit that
\* was set when Calculate ran
IntegralWithinLimitAfterCalculate ==
    pcMain \in {"pid_first", "pid_later", "pid_reset"} =>
        /\ -pid.IntegralMax <= pid.Integral
        /\ pid.Integral <= pid.IntegralMax
        /\ pcMain # "pid_reset" => pidTerms.I = pid.Integral

\* GetCPUTemperature has just returned
CPUTempReturned == unitCall.fn = "GetCPUTemperature"

\* C35: the cached k10temp path is written at most once.  While it is empty a
\* call of GetCPUTemperature runs discovery, and a failed discovery leaves it
\* empty and returns an error; once it is non-empty no call changes it or runs
\* discovery again, also when the read from the cached path fails.
C35_CachedPathWrittenOnce ==
    [][ /\ cachedK10TempPath # "" =>
            /\ cachedK10TempPath' = cachedK10TempPath
            /\ unitCall'.discovery = FALSE
            /\ unitCall'.path = cachedK10TempPath
        /\ cachedK10TempPath = "" =>
            /\ unitCall'.discovery = TRUE
            /\ findK10TempPath(unitCall'.matches).err # "nil" =>
                   /\ cachedK10TempPath' = ""
                   /\ unitCall'.err # "nil"
            /\ findK10TempPath(unitCall'.matches).err = "nil" =>
                   cachedK10TempPath' = findK10TempPath(unitCall'.matches).path
      ]_vars

\* a read from the cached path has failed while another k10temp directory was
\* on offer, and the cached path is still the one found first
C35_Witness ==
    /\ CPUTempReturned
    /\ unitCall.discovery = FALSE
    /\ unitCall.err # "nil"
    /\ findK10TempPath(unitCall.matches).err = "nil"
    /\ findK10TempPath(unitCall.matches).path # cachedK10TempPath
    /\ cachedK10TempPath # ""

TestIPMIReturned == pcMain = "ipmi_returned"

\* C36: whenever TestIPMICommand returns after SetAllFans(50) succeeded, the
\* last fan command it issued is 100%, on every return path, the one where no
\* fan responded included.
C36_SelfTestLeavesFansAtFull ==
    (TestIPMIReturned /\ unitCall.set50) => lastCmd = 100

\* the return paths that lie behind the call SetAllFans(100) end with that
\* command
SelfTestResetWhenFansResponded ==
    /\ TestIPMIReturned
    /\ unitCall.err \in { "nil", "failed to reset fans to 100%",
                          "failed to get final fan speeds" }
    => lastCmd = 100

FanSpeedsReturned == pcMain = "fan_speeds_done"

\* a reading that is a number: digits with at most one decimal point
IsNumber(reading) ==
    /\ \A i \in 1..Len(reading) : reading[i] \in Digits \cup { "." }
    /\ \E i \in 1..Len(reading) : reading[i] \in Digits
    /\ Cardinality({ i \in 1..Len(reading) : reading[i] = "." }) <= 1

\* the fan sensor lines of a report that carry a numeric RPM reading
NumericFanLines(report) ==
    { i \in 1..Len(report.lines) :
        /\ MatchesFanName(report.lines[i].name)
        /\ report.lines[i].unit = "RPM"
        /\ IsNumber(report.lines[i].reading) }

\* C39: when GetFanSpeeds returns a map, its fans are exactly those of the fan
\* sensor lines with a numeric RPM reading, each with the reading of its last
\* such line truncated to an integer, and a fan that only reports `na` has no
\* entry; when ipmitool fails or no line has a parseable fan entry it returns
\* an error and no map; it never returns an empty map without an error.
C39_FanSpeedsExactlyNumericLines ==
    FanSpeedsReturned =>
        LET report == unitCall.report
            speeds == unitCall.speeds
            numeric == NumericFanLines(report)
            LastOf(f) == CHOOSE i \in numeric :
                            /\ report.lines[i].name = f
                            /\ \A j \in numeric :
                                  report.lines[j].name = f => j <= i
        IN  /\ unitCall.err = "nil" =>
                /\ ~report.failed
                /\ DOMAIN speeds = { report.lines[i].name : i \in numeric }
                /\ DOMAIN speeds # {}
                /\ \A f \in DOMAIN speeds :
                     /\ speeds[f] * 1000
                          <= ParseFloat(report.lines[LastOf(f)].reading).milli
                     /\ ParseFloat(report.lines[LastOf(f)].reading).milli
                          < (speeds[f] + 1) * 1000
                /\ \A i \in 1..Len(report.lines) :
                     (/\ report.lines[i].reading = <<"n", "a">>
                      /\ \A j \in numeric :
                            report.lines[j].name # report.lines[i].name)
                     => report.lines[i].name \notin DOMAIN speeds
            /\ (report.failed \/ numeric = {}) =>
                /\ unitCall.err # "nil"
                /\ speeds = <<>>
            /\ unitCall.err # "nil" => speeds = <<>>

\* a report with a fan at 7.9 RPM, read as 7, next to a fan reporting `na`
C39_Witness ==
    /\ FanSpeedsReturned
    /\ unitCall.err = "nil"
    /\ Len(unitCall.report.lines) = 2
    /\ unitCall.report.lines[1].reading = <<"n", "a">>
    /\ MatchesFanRegex(unitCall.report.lines[1])
    /\ unitCall.report.lines[2].reading = <<"7", ".", "9">>
    /\ unitCall.report.lines[1].name # unitCall.report.lines[2].name
    /\ DOMAIN unitCall.speeds = { unitCall.report.lines[2].name }
    /\ unitCall.speeds[unitCall.report.lines[2].name] = 7

ExcludeReturned == pcMain = "exclude_done"

\* C40: matchesExcludePattern returns true if and only if at least one valid
\* pattern of the list matches the device name; an invalid pattern, wherever it
\* stands in the list, neither makes the result true nor hides a valid pattern
\* behind it.
C40_ExcludedIffValidPatternMatches ==
    ExcludeReturned =>
        (unitCall.result
            <=> \E i \in 1..Len(unitCall.patterns) :
                    /\ MatchString(unitCall.patterns[i], unitCall.device).err = "nil"
                    /\ MatchString(unitCall.patterns[i], unitCall.device).matched)

\* an invalid pattern stood before the only pattern that matches the device
C40_Witness ==
    /\ ExcludeReturned
    /\ unitCall.result
    /\ Len(unitCall.patterns) = 2
    /\ MatchString(unitCall.patterns[1], unitCall.device).err # "nil"
    /\ MatchString(unitCall.patterns[2], unitCall.device).matched

====
